---- MODULE Spec2Model ----
(***************************************************************************)
(* The authenticated request pipeline of the PayPal REST client:           *)
(* TokenManager.EnsureValid (token cache, renewal under the client's       *)
(* mutex), RequestExecutor.Execute, ResponseDecoder.Decode and the codecs  *)
(* of expires_in and of timestamps.                                        *)
(*                                                                         *)
(* src/types.go declares the client state (Client: the embedded            *)
(* sync.Mutex, Token, tokenExpiresAt, Log), the safety margin              *)
(* RequestNewTokenBeforeExpiresIn, the TokenResponse and ErrorResponse     *)
(* shapes and the expires_in codec.  The control flow of EnsureValid,      *)
(* Execute and Decode is taken from sections 4.1 to 4.3, 5 and 7 of the    *)
(* specification.                                                          *)
(*                                                                         *)
(* Spec is the client under concurrent callers.  SpecBurst and SpecIdem    *)
(* restrict it to a burst of calls and to calls with no elapsed time.      *)
(* SpecExec follows one Execute through its frame: the answer of the token *)
(* endpoint, the request sent, the response and what is returned.          *)
(* SpecCodec applies the expires_in codec to JSON values and SpecTime      *)
(* writes instants as JSON timestamps.  SpecOrder keeps the history of the *)
(* tokens handed out, and SpecLive is the client under fair scheduling.    *)
(*                                                                         *)
(* Time is counted in whole seconds.  Local computation takes no time: the *)
(* clock advances only while every caller is idle, waiting for the mutex   *)
(* or waiting on network I/O.                                              *)
(***************************************************************************)
EXTENDS Integers, Sequences, FiniteSets, TLC

\* ------------------------------------------------------------------ bounds
NumCallers == 2
MaxTime == 1
MaxFetches == 3
MaxSmall == 12

Callers == 1..NumCallers

\* ------------------------------------------------------- program constants
\* the margin taken in minutes instead of seconds
Margin_InMinutes == 60 * 60
\* no margin at all
Margin_None == 0 * 60
\* RequestNewTokenBeforeExpiresIn = time.Duration(60) * time.Second, in seconds
RequestNewTokenBeforeExpiresIn == 60

\* ---------------------------------------------------------------- the data
\* A nil pointer is the empty tuple, a non-nil pointer the 1-tuple of its target.
Nil == << >>
Ref(x) == << x >>
Deref(p) == p[1]

\* ------------------------------------------------- the relative-expiry codec
\* Text is a sequence of one-character strings.
DigitChars == << "0", "1", "2", "3", "4", "5", "6", "7", "8", "9" >>
IsDigit(ch) == \E d \in 1..10 : DigitChars[d] = ch
DigitVal(ch) == (CHOOSE d \in 1..10 : DigitChars[d] = ch) - 1

Tail1(s) == SubSeq(s, 2, Len(s))

RECURSIVE SkipDigits(_)
SkipDigits(s) == IF s # << >> /\ IsDigit(s[1]) THEN SkipDigits(Tail1(s)) ELSE s

\* encoding/json isValidNumber: -?(0|[1-9][0-9]*)(\.[0-9]+)?([eE][+-]?[0-9]+)?
AfterMinus(s) == IF s # << >> /\ s[1] = "-" THEN Tail1(s) ELSE s
AfterInt(s) ==
    IF s[1] = "0" THEN Tail1(s) ELSE SkipDigits(Tail1(s))
AfterFrac(s) ==
    IF Len(s) >= 2 /\ s[1] = "." /\ IsDigit(s[2])
    THEN SkipDigits(SubSeq(s, 3, Len(s)))
    ELSE s
ExpSignOk(s) ==
    ~(Len(s) >= 2 /\ s[1] \in {"e", "E"} /\ s[2] \in {"+", "-"} /\ Len(s) = 2)
AfterExp(s) ==
    IF Len(s) >= 2 /\ s[1] \in {"e", "E"}
    THEN SkipDigits(IF s[2] \in {"+", "-"} THEN SubSeq(s, 3, Len(s)) ELSE Tail1(s))
    ELSE s
isValidNumber(s) ==
    /\ s # << >>
    /\ AfterMinus(s) # << >>
    /\ IsDigit(AfterMinus(s)[1])
    /\ ExpSignOk(AfterFrac(AfterInt(AfterMinus(s))))
    /\ AfterExp(AfterFrac(AfterInt(AfterMinus(s)))) = << >>

\* A JSON value: its kind ("number", "string", "null", "bool", "object") and,
\* for a number, its literal, for a string, its content.
\* json.Unmarshal(b, &n) with n a json.Number: a number literal or a string
\* holding one is stored as text, null stores nothing, anything else fails.
json_Unmarshal_Number(b) ==
    CASE b.kind = "number" -> [err |-> ~isValidNumber(b.text), n |-> b.text]
      [] b.kind = "string" -> [err |-> ~isValidNumber(b.text), n |-> b.text]
      [] b.kind = "null"   -> [err |-> FALSE, n |-> << >>]
      [] OTHER             -> [err |-> TRUE, n |-> << >>]

\* magnitudes are digit sequences without leading zeros; zero is << 0 >>
RECURSIVE StripZeros(_)
StripZeros(ds) ==
    IF Len(ds) > 1 /\ ds[1] = 0 THEN StripZeros(Tail1(ds)) ELSE ds

RECURSIVE LexLess(_, _)
LexLess(a, b) ==
    /\ a # << >>
    /\ \/ a[1] < b[1]
       \/ a[1] = b[1] /\ LexLess(Tail1(a), Tail1(b))

MagLess(a, b) == Len(a) < Len(b) \/ (Len(a) = Len(b) /\ LexLess(a, b))

\* 1 << 63
Cutoff64 == << 9,2,2,3,3,7,2,0,3,6,8,5,4,7,7,5,8,0,8 >>

\* a signed integer: its sign and its magnitude
IntVal(neg, mag) == [neg |-> neg /\ mag # << 0 >>, mag |-> mag]
Zero == IntVal(FALSE, << 0 >>)

\* a parse that ignores the range error and keeps the nearest value
ParseInt_Saturating(s, cutoff) ==
    LET neg == s # << >> /\ s[1] = "-"
        rest == IF s # << >> /\ s[1] \in {"+", "-"} THEN Tail1(s) ELSE s
        syntax == rest = << >> \/ \E i \in 1..Len(rest) : ~IsDigit(rest[i])
        mag == StripZeros([i \in 1..Len(rest) |-> DigitVal(rest[i])])
        range == IF neg THEN MagLess(cutoff, mag) ELSE ~MagLess(mag, cutoff)
    IN IF syntax
       THEN [err |-> TRUE, i |-> Zero]
       ELSE IF range
            THEN [err |-> FALSE,
                  i |-> IntVal(neg, IF neg THEN cutoff
                                    ELSE << 9,2,2,3,3,7,2,0,3,6,8,5,4,7,7,5,8,0,7 >>)]
            ELSE [err |-> FALSE, i |-> IntVal(neg, mag)]

\* strconv.ParseInt(s, 10, bitSize) with the given cutoff 1 << (bitSize-1):
\* an optional sign, then decimal digits only, then the range check
ParseInt(s, cutoff) ==
    LET neg == s # << >> /\ s[1] = "-"
        rest == IF s # << >> /\ s[1] \in {"+", "-"} THEN Tail1(s) ELSE s
        syntax == rest = << >> \/ \E i \in 1..Len(rest) : ~IsDigit(rest[i])
        mag == StripZeros([i \in 1..Len(rest) |-> DigitVal(rest[i])])
        range == IF neg THEN MagLess(cutoff, mag) ELSE ~MagLess(mag, cutoff)
    IN IF syntax \/ range
       THEN [err |-> TRUE, i |-> Zero]
       ELSE [err |-> FALSE, i |-> IntVal(neg, mag)]

\* json.Number.Int64
Number_Int64(n) == ParseInt(n, Cutoff64)

\* a codec that takes bare numbers only
UnmarshalJSON_NumbersOnly(e, b) ==
    IF b.kind = "number" /\ ~Number_Int64(b.text).err
    THEN [err |-> FALSE, e |-> Number_Int64(b.text).i]
    ELSE [err |-> TRUE, e |-> e]

\* a codec that clears the destination before it decodes
UnmarshalJSON_ClearsFirst(e, b) ==
    IF json_Unmarshal_Number(b).err \/ Number_Int64(json_Unmarshal_Number(b).n).err
    THEN [err |-> TRUE, e |-> Zero]
    ELSE [err |-> FALSE, e |-> Number_Int64(json_Unmarshal_Number(b).n).i]

\* a codec that swallows its errors and stores zero
UnmarshalJSON_ErrorsSwallowed(e, b) ==
    IF json_Unmarshal_Number(b).err \/ Number_Int64(json_Unmarshal_Number(b).n).err
    THEN [err |-> FALSE, e |-> Zero]
    ELSE [err |-> FALSE, e |-> Number_Int64(json_Unmarshal_Number(b).n).i]

\* func (e *expirationTime) UnmarshalJSON(b []byte) error: the error returned
\* and the value of *e afterwards
UnmarshalJSON(e, b) ==
    LET n == json_Unmarshal_Number(b)
    IN IF n.err
       THEN [err |-> TRUE, e |-> e]
       ELSE IF Number_Int64(n.n).err
            THEN [err |-> TRUE, e |-> e]
            ELSE [err |-> FALSE, e |-> Number_Int64(n.n).i]

\* between the integers of the model and their decimal text
RECURSIVE NatDigits(_)
NatDigits(n) == IF n < 10 THEN << n >> ELSE Append(NatDigits(n \div 10), n % 10)

RECURSIVE MagToNat(_)
MagToNat(ds) ==
    IF ds = << >> THEN 0 ELSE 10 * MagToNat(SubSeq(ds, 1, Len(ds) - 1)) + ds[Len(ds)]

FromInt(k) == IF k < 0 THEN IntVal(TRUE, NatDigits(-k)) ELSE IntVal(FALSE, NatDigits(k))
ToInt(v) == IF v.neg THEN -MagToNat(v.mag) ELSE MagToNat(v.mag)

\* the decimal digits of an integer, as text
FormatInt(v) ==
    (IF v.neg THEN << "-" >> ELSE << >>) \o [i \in 1..Len(v.mag) |-> DigitChars[v.mag[i] + 1]]

\* expires_in values the token endpoint reports, in seconds (expirationTime is
\* a signed int64): negative, zero, exactly the safety margin, one second more,
\* and one hour.
ExpiresInValues == {-1, 0, 60, 61, 3600}

\* The forms in which a good body carries expires_in: the bare number n, the
\* string "n", the bare number under keys of another letter case, or not at all.
ExpiresInForms == {"number", "string", "folded", "absent"}
\* Every lifetime comes as a number and as a string; the body with keys of
\* another letter case is one of an hour, and the body without expires_in is
\* one body, counted with the lifetime 0 it decodes to.
GrantForms ==
    [e \in ExpiresInValues |->
        {"number", "string"} \cup (IF e = 3600 THEN {"folded"} ELSE {})
                             \cup (IF e = 0 THEN {"absent"} ELSE {})]

\* a codec that takes bare numbers only and leaves *e zero for a string
expirationTime_NumbersOnly(raw) == IF raw.form = "number" THEN raw.val ELSE 0

\* The expires_in member of a body, as the endpoint writes it: the integer val
\* as a bare number or as a string of its digits, or something that is no
\* integer (a fraction, a word, a boolean).
JSONOf(raw) ==
    CASE raw.form = "number"   -> [kind |-> "number", text |-> FormatInt(FromInt(raw.val))]
      [] raw.form = "string"   -> [kind |-> "string", text |-> FormatInt(FromInt(raw.val))]
      [] raw.form = "fraction" -> [kind |-> "number",
                                   text |-> FormatInt(FromInt(raw.val)) \o << ".", "5" >>]
      [] raw.form = "word"     -> [kind |-> "string", text |-> << "a", "b", "c" >>]
      [] OTHER                 -> [kind |-> "bool", text |-> << >>]

\* (e *expirationTime) UnmarshalJSON on the expires_in member of a token body,
\* the destination being the zero field of a new TokenResponse
expirationTime_UnmarshalJSON(raw) == ToInt(UnmarshalJSON(Zero, JSONOf(raw)).e)

\* ------------------------------------------------------------ JSON documents
\* A JSON value carries its kind.  An object keeps its members in the order of
\* the text, each under its key as the text spells it (a sequence of
\* characters): a key may be written in any letter case and more than once.
Str(s) == [kind |-> "string", val |-> s]
Arr(items) == [kind |-> "array", items |-> items]
Obj(members) == [kind |-> "object", members |-> members]
Mem(key, value) == [key |-> key, value |-> value]

\* a body: whether it is JSON text at all, and the value it holds
WellFormed(doc) == [wellformed |-> TRUE, doc |-> doc]
Malformed == [wellformed |-> FALSE, doc |-> [truncated |-> TRUE]]

\* the names in the json tags of TokenResponse, ErrorResponse,
\* ErrorResponseDetail and Link, by name
json_tag ==
    [refresh_token |-> << "r", "e", "f", "r", "e", "s", "h", "_", "t", "o", "k", "e", "n" >>,
     access_token |-> << "a", "c", "c", "e", "s", "s", "_", "t", "o", "k", "e", "n" >>,
     token_type |-> << "t", "o", "k", "e", "n", "_", "t", "y", "p", "e" >>,
     expires_in |-> << "e", "x", "p", "i", "r", "e", "s", "_", "i", "n" >>,
     name |-> << "n", "a", "m", "e" >>,
     debug_id |-> << "d", "e", "b", "u", "g", "_", "i", "d" >>,
     message |-> << "m", "e", "s", "s", "a", "g", "e" >>,
     information_link |-> << "i", "n", "f", "o", "r", "m", "a", "t", "i", "o", "n", "_", "l", "i", "n", "k" >>,
     details |-> << "d", "e", "t", "a", "i", "l", "s" >>,
     field |-> << "f", "i", "e", "l", "d" >>,
     issue |-> << "i", "s", "s", "u", "e" >>,
     link |-> << "l", "i", "n", "k" >>,
     href |-> << "h", "r", "e", "f" >>,
     rel |-> << "r", "e", "l" >>,
     method |-> << "m", "e", "t", "h", "o", "d" >>,
     description |-> << "d", "e", "s", "c", "r", "i", "p", "t", "i", "o", "n" >>,
     enctype |-> << "e", "n", "c", "t", "y", "p", "e" >>]

\* encoding/json matches the key of a member with the name of a field under
\* simple case folding: the ASCII letters, and the Kelvin sign (U+212A) and the
\* long s (U+017F), which fold to k and s
Folded ==
    LET UpperCase == << "A", "B", "C", "D", "E", "F", "G", "H", "I", "J", "K", "L", "M",
                        "N", "O", "P", "Q", "R", "S", "T", "U", "V", "W", "X", "Y", "Z" >>
        LowerCase == << "a", "b", "c", "d", "e", "f", "g", "h", "i", "j", "k", "l", "m",
                        "n", "o", "p", "q", "r", "s", "t", "u", "v", "w", "x", "y", "z" >>
    IN [ch \in {UpperCase[i] : i \in DOMAIN UpperCase} \cup {"U+212A", "U+017F"} |->
           IF ch = "U+212A" THEN "k"
           ELSE IF ch = "U+017F" THEN "s"
           ELSE LowerCase[CHOOSE i \in DOMAIN UpperCase : UpperCase[i] = ch]]
\* two names are the same under folding
EqualFold(key, tag) ==
    LET Fold(ch) == IF ch \in DOMAIN Folded THEN Folded[ch] ELSE ch
    IN /\ Len(key) = Len(tag)
       /\ \A i \in 1..Len(key) : Fold(key[i]) = Fold(tag[i])

\* the members of an object that go to the field tagged tag, in the order of
\* the text: the key is the tag, or folds to what the tag folds to
Occurrences(doc, tag) ==
    LET Hit(m) == m.key = tag \/ EqualFold(m.key, tag)
    IN SelectSeq(doc.members, Hit)

\* a string field: every member of its tag is stored in turn, so the last
\* string stays; null stores nothing; any other kind is a type error, which
\* the decoder keeps and reports when it is done
Member(doc, tag, zero) ==
    LET IsString(m) == m.value.kind = "string"
        Stored(stores) == IF stores = << >> THEN zero ELSE stores[Len(stores)].value.val
    IN Stored(SelectSeq(Occurrences(doc, tag), IsString))
MemberFails(doc, tag) ==
    LET TypeError(m) == m.value.kind \notin {"string", "null"}
    IN SelectSeq(Occurrences(doc, tag), TypeError) # << >>

\* a struct is decoded from an object; null leaves it as it is, any other
\* kind is a type error
IsObject(body) == body.wellformed /\ body.doc.kind = "object"

\* The expires_in member as the endpoint writes it: the JSON value, with the
\* form and the integer it was written from.
Written(form, e) ==
    LET json == JSONOf([form |-> form, val |-> e])
    IN [kind |-> json.kind, text |-> json.text, form |-> form, val |-> e]

\* The JSON body of a 2xx answer of the token endpoint.  Access tokens are
\* numbered in the order the endpoint grants them; 0 is the empty string.
\* expires_in is a bare number, a string or something that is no integer; it
\* may be left out (RFC 6749 recommends it, no more), and the keys may come in
\* another letter case.
TokenBody(tok, form, e) ==
    WellFormed(Obj(
        CASE form = "absent" ->
                << Mem(json_tag.refresh_token, Str(0)), Mem(json_tag.access_token, Str(tok)),
                   Mem(json_tag.token_type, Str("Bearer")) >>
          [] form = "folded" ->
                << Mem(<< "R", "e", "f", "r", "e", "s", "h", "_", "T", "o", "k", "e", "n" >>, Str(0)), Mem(<< "A", "C", "C", "E", "S", "S", "_", "T", "O", "K", "E", "N" >>, Str(tok)),
                   Mem(<< "T", "o", "k", "e", "n", "_", "T", "y", "p", "e" >>, Str("Bearer")), Mem(<< "E", "x", "p", "i", "r", "e", "s", "_", "I", "n" >>, Written("number", e)) >>
          [] OTHER ->
                << Mem(json_tag.refresh_token, Str(0)), Mem(json_tag.access_token, Str(tok)),
                   Mem(json_tag.token_type, Str("Bearer")),
                   Mem(json_tag.expires_in, Written(form, e)) >>))

\* the object a token body holds; a body that is null holds no member
TokenDoc(body) == IF IsObject(body) THEN body.doc ELSE Obj(<< >>)

\* the access_token and refresh_token tags exchanged
DecodeTokenResponse_TagsSwapped(body) ==
    LET members == TokenDoc(body).members
        Aborts(i) ==
            /\ Occurrences(Obj(<< members[i] >>), json_tag.expires_in) # << >>
            /\ UnmarshalJSON(Zero, members[i].value).err
        Before(failing) ==
            IF failing = {} THEN Len(members)
            ELSE (CHOOSE i \in failing : \A j \in failing : i <= j) - 1
        Fields(doc) ==
            [RefreshToken |-> Member(doc, json_tag.access_token, 0),
             Token        |-> Member(doc, json_tag.refresh_token, 0),
             Type         |-> Member(doc, json_tag.token_type, ""),
             ExpiresIn    |-> LET occ == Occurrences(doc, json_tag.expires_in)
                              IN IF occ = << >> THEN 0
                                 ELSE expirationTime_UnmarshalJSON(occ[Len(occ)].value)]
    IN Fields(Obj(SubSeq(members, 1, Before({i \in 1..Len(members) : Aborts(i)}))))

\* TokenResponse and its json tags.  The members are decoded in the order of
\* the text.  A field with no member keeps its zero value, and of the members
\* of a field the last one stays.  An error of UnmarshalJSON ends the
\* decoding there: the failing expires_in member stores nothing, and the
\* members after it are not read.  A string field given a value of another
\* kind is an error the decoder keeps, and it goes on.
DecodeTokenResponse(body) ==
    LET members == TokenDoc(body).members
        Aborts(i) ==
            /\ Occurrences(Obj(<< members[i] >>), json_tag.expires_in) # << >>
            /\ UnmarshalJSON(Zero, members[i].value).err
        Before(failing) ==
            IF failing = {} THEN Len(members)
            ELSE (CHOOSE i \in failing : \A j \in failing : i <= j) - 1
        Fields(doc) ==
            [RefreshToken |-> Member(doc, json_tag.refresh_token, 0),
             Token        |-> Member(doc, json_tag.access_token, 0),
             Type         |-> Member(doc, json_tag.token_type, ""),
             ExpiresIn    |-> LET occ == Occurrences(doc, json_tag.expires_in)
                              IN IF occ = << >> THEN 0
                                 ELSE expirationTime_UnmarshalJSON(occ[Len(occ)].value)]
    IN Fields(Obj(SubSeq(members, 1, Before({i \in 1..Len(members) : Aborts(i)}))))


\* json decoding of a token body fails when the body is no JSON, when it is
\* JSON but neither an object nor null, when a string field gets a value of
\* another kind or when the codec of expires_in returns an error
DecodeTokenResponseFails(body) ==
    \/ ~body.wellformed
    \/ body.doc.kind \notin {"object", "null"}
    \/ /\ IsObject(body)
       /\ \/ \E tag \in {json_tag.refresh_token, json_tag.access_token, json_tag.token_type} :
                 MemberFails(body.doc, tag)
          \/ LET occ == Occurrences(body.doc, json_tag.expires_in)
             IN \E i \in 1..Len(occ) : UnmarshalJSON(Zero, occ[i].value).err

\* a guard that excludes nobody
MutexCanLock_Always(h) == TRUE
\* an unlock that does not release
MutexUnlock_Held(h, c) == h
\* sync.Mutex, embedded in Client.  holders is the set of callers that have
\* locked it and not yet unlocked it.
MutexCanLock(h) == h = {}
MutexLock(h, c) == h \cup {c}
MutexUnlock(h, c) == h \ {c}

\* ---------------------------------------------------------------- the state
VARIABLES
    now,             \* the clock, in seconds
    holders,         \* Client.Mutex
    Token,           \* Client.Token: Nil or Ref(TokenResponse)
    tokenExpiresAt,  \* Client.tokenExpiresAt
    pc,              \* pc[c]: where caller c is in its call
    kind,            \* kind[c]: the call c is making
    seen,            \* seen[c]: the (Token, tokenExpiresAt) pair c read in its check, when,
                     \*          and how many fetch requests had been sent by then
    fetched,         \* fetched[c]: Nil or Ref of what c's fetch got: the decoded response,
                     \*          and the body's access_token, expires_in and arrival time
    ret,             \* ret[c]: what EnsureValid returned to c
    fetches,         \* token-fetch requests sent so far
    lastOk,          \* Nil or Ref of the last fetch that completed with a 2xx answer
    log,             \* what the observers below have seen; in SpecExec, what has
                     \* been written to Client.Log
    exec,            \* exec[c]: the frame of c's Execute: its inputs, the request it
                     \*          sent, the response it got and what it returned
    cod,             \* a call of a codec: its input and its outcome
    config           \* Client.ClientID, Client.Secret, Client.APIBase and Client.Log

vars == << now, holders, Token, tokenExpiresAt, pc, kind, seen, fetched, ret,
           fetches, lastOk, log, exec, cod, config >>

\* "EV": EnsureValid(false); "EVForce": EnsureValid(true);
\* "Exec": Execute(..., authRequired = true, ...), which calls EnsureValid(false)
Kinds == {"EV", "EVForce", "Exec"}

ForceRefresh(k) == k = "EVForce"

NoSeen == [Token |-> Nil, tokenExpiresAt |-> 0, at |-> 0, fetches |-> 0]
\* Client.Log is an io.Writer: nil, a writer that takes what is written, a
\* writer whose Write returns an error
Sinks == {"none", "ok", "failing"}

\* section 7: the errors of the pipeline.  detail is Nil or Ref(ErrorResponse).
NoError == [kind |-> "none", detail |-> Nil]
TransportError == [kind |-> "TransportError", detail |-> Nil]
DecodeError == [kind |-> "DecodeError", detail |-> Nil]
RemoteError(er) == [kind |-> "RemoteError", detail |-> Ref(er)]

\* what EnsureValid returns: the token and the error
NoRet == [done |-> FALSE, err |-> FALSE, token |-> 0, error |-> NoError]

\* no Execute under way
NoExec == [answer |-> Nil, auth |-> Nil, in |-> Nil, req |-> Nil, sends |-> 0,
           sentAt |-> Nil, resp |-> Nil, result |-> Nil]
\* no codec call under way
NoCodec == [stage |-> "none"]
\* the credentials and the base URL the client was constructed with, and
\* no log sink
NewConfig == [ClientID |-> "clientid", Secret |-> "secret", APIBase |-> "APIBase",
              Log |-> "none"]

\* a newly constructed Client: no token, zero expiry, mutex unlocked
NewClient ==
    /\ now = 0
    /\ holders = {}
    /\ Token = Nil
    /\ tokenExpiresAt = 0
    /\ pc = [c \in Callers |-> "idle"]
    /\ kind = [c \in Callers |-> "EV"]
    /\ seen = [c \in Callers |-> NoSeen]
    /\ fetched = [c \in Callers |-> Nil]
    /\ ret = [c \in Callers |-> NoRet]
    /\ fetches = 0
    /\ lastOk = Nil
    /\ log = << >>
    /\ exec = [c \in Callers |-> NoExec]
    /\ config = NewConfig

Init == NewClient /\ cod = NoCodec

\* 200 alone taken as a success
Is2xx_Only200(status) == status = 200
\* 4.1/4.3: the success range of status codes
Is2xx(status) == status >= 200 /\ status <= 299

\* ------------------------------------------------------------ ResponseDecoder
\* bodies of business responses
OrderDoc ==
    Obj(<< Mem(<< "i", "d" >>, Str("5O190127TN364715T")),
           Mem(<< "s", "t", "a", "t", "u", "s" >>, Str("CREATED")) >>)
\* two issues; the keys come in several letter cases, the first detail has a
\* member no field takes and a link with one
TwoIssuesDoc ==
    Obj(<< Mem(<< "N", "a", "m", "e" >>, Str("UNPROCESSABLE_ENTITY")),
           Mem(<< "M", "E", "S", "S", "A", "G", "E" >>, Str("The requested action could not be performed")),
           Mem(<< "D", "e", "b", "u", "g", "_", "I", "d" >>, Str("b7c3")),
           Mem(<< "D", "e", "t", "a", "i", "l", "s" >>, Arr(<<
               Obj(<< Mem(<< "F", "i", "e", "l", "d" >>, Str("/purchase_units/0/amount")),
                      Mem(<< "I", "S", "S", "U", "E" >>, Str("AMOUNT_MISMATCH")),
                      Mem(json_tag.description, Str("Should equal the item total")),
                      Mem(json_tag.link, Arr(<<
                          Obj(<< Mem(json_tag.href, Str("https://developer.paypal.com/docs/api/orders/")),
                                 Mem(<< "t", "i", "t", "l", "e" >>, Str("Orders")) >>) >>)) >>),
               Obj(<< Mem(json_tag.field, Str("/payer")),
                      Mem(json_tag.issue, Str("PAYER_MISSING")) >>) >>)) >>)
ValidationDoc ==
    Obj(<< Mem(json_tag.name, Str("VALIDATION_ERROR")),
           Mem(json_tag.message, Str("Invalid request")),
           Mem(json_tag.debug_id, Str("f1a2")),
           Mem(json_tag.information_link, Str("https://developer.paypal.com/docs/api/")),
           Mem(json_tag.details, Arr(<<
               Obj(<< Mem(json_tag.field, Str("amount")),
                      Mem(json_tag.issue, Str("required")) >>) >>)) >>)
\* an object that writes details twice: the second array is decoded into the
\* elements the first one left
RepeatedDoc ==
    Obj(<< Mem(json_tag.name, Str("VALIDATION_ERROR")),
           Mem(json_tag.message, Str("Invalid request")),
           Mem(json_tag.details, Arr(<<
               Obj(<< Mem(json_tag.field, Str("amount")),
                      Mem(json_tag.issue, Str("required")),
                      Mem(json_tag.link, Arr(<<
                          Obj(<< Mem(json_tag.href, Str("https://developer.paypal.com/docs/api/")),
                                 Mem(json_tag.rel, Str("information_link")) >>) >>)) >>),
               Obj(<< Mem(json_tag.field, Str("currency")) >>) >>)),
           Mem(<< "D", "E", "T", "A", "I", "L", "S" >>, Arr(<<
               Obj(<< Mem(json_tag.field, Str("payer")),
                      Mem(json_tag.link, Arr(<<
                          Obj(<< Mem(json_tag.method, Str("GET")) >>) >>)) >>) >>)) >>)
\* the bodies of a response: four objects, null, JSON that is neither, and no
\* JSON
Bodies ==
    {WellFormed(OrderDoc), WellFormed(ValidationDoc), WellFormed(TwoIssuesDoc),
     WellFormed(RepeatedDoc), WellFormed([kind |-> "null"]), WellFormed(Arr(<< >>)), Malformed}

\* the members of a value decoded as a struct: those of an object, none of
\* anything else
MembersOf(v) == IF v.kind = "object" THEN v ELSE Obj(<< >>)

\* Link and its json tags, decoded into the Link old: a field with no member
\* keeps what it held
LinkOf(old, v) ==
    [Href        |-> Member(MembersOf(v), json_tag.href, old.Href),
     Rel         |-> Member(MembersOf(v), json_tag.rel, old.Rel),
     Method      |-> Member(MembersOf(v), json_tag.method, old.Method),
     Description |-> Member(MembersOf(v), json_tag.description, old.Description),
     Enctype     |-> Member(MembersOf(v), json_tag.enctype, old.Enctype)]
LinkFails(v) ==
    IF v.kind = "object"
    THEN \E tag \in {json_tag.href, json_tag.rel, json_tag.method, json_tag.description, json_tag.enctype} :
             MemberFails(v, tag)
    ELSE v.kind # "null"

\* A slice field.  The slice is its length and the elements of its backing
\* array, of which those past the length are out of sight.  Every member of
\* the tag is decoded in turn: null makes the slice nil and [] makes it a new
\* empty one; any other array decodes its element i INTO element i of the
\* backing array, a zero element where there is none, cuts the slice to the
\* length of the array and leaves the rest of the backing array as it was; any
\* other kind is a type error and leaves the slice alone.
\* The Links of a detail after the link members of d are decoded into old.
LinksOf(old, d) ==
    LET occ == Occurrences(d, json_tag.link)
        Element(slice, items, i) ==
            IF i > Len(items) THEN slice.elems[i]
            ELSE LinkOf(IF i <= Len(slice.elems) THEN slice.elems[i]
                        ELSE [Href |-> "", Rel |-> "", Method |-> "",
                              Description |-> "", Enctype |-> ""],
                        items[i])
        RECURSIVE After(_)
        After(k) ==
            IF k = 0 THEN old
            ELSE LET slice == After(k - 1)
                     v == occ[k].value
                 IN IF v.kind = "null" \/ (v.kind = "array" /\ v.items = << >>)
                    THEN [len |-> 0, elems |-> << >>]
                    ELSE IF v.kind = "array"
                         THEN [len |-> Len(v.items),
                               elems |->
                                   [i \in 1..(IF Len(v.items) > Len(slice.elems)
                                              THEN Len(v.items)
                                              ELSE Len(slice.elems)) |->
                                       Element(slice, v.items, i)]]
                         ELSE slice
    IN After(Len(occ))

\* a detail whose field and issue tags are exchanged
ErrorResponseDetailOf_TagsSwapped(old, d) ==
    [Field |-> Member(MembersOf(d), json_tag.issue, old.Field),
     Issue |-> Member(MembersOf(d), json_tag.field, old.Issue),
     Links |-> LinksOf(old.Links, MembersOf(d))]

\* ErrorResponseDetail and its json tags, decoded into the detail old
ErrorResponseDetailOf(old, d) ==
    [Field |-> Member(MembersOf(d), json_tag.field, old.Field),
     Issue |-> Member(MembersOf(d), json_tag.issue, old.Issue),
     Links |-> LinksOf(old.Links, MembersOf(d))]
ErrorResponseDetailFails(d) ==
    IF d.kind = "object"
    THEN \/ MemberFails(d, json_tag.field)
         \/ MemberFails(d, json_tag.issue)
         \/ LET occ == Occurrences(d, json_tag.link)
            IN \E k \in 1..Len(occ) :
                   IF occ[k].value.kind = "array"
                   THEN \E i \in 1..Len(occ[k].value.items) :
                            LinkFails(occ[k].value.items[i])
                   ELSE occ[k].value.kind # "null"
    ELSE d.kind # "null"

\* the details member decoded into a new ErrorResponse, in the same way as
\* the links of a detail: the details in sight, each with its links in sight
DetailsOf(doc) ==
    LET occ == Occurrences(MembersOf(doc), json_tag.details)
        Element(slice, items, i) ==
            IF i > Len(items) THEN slice.elems[i]
            ELSE ErrorResponseDetailOf(
                     IF i <= Len(slice.elems) THEN slice.elems[i]
                     ELSE [Field |-> "", Issue |-> "",
                           Links |-> [len |-> 0, elems |-> << >>]],
                     items[i])
        RECURSIVE After(_)
        After(k) ==
            IF k = 0 THEN [len |-> 0, elems |-> << >>]
            ELSE LET slice == After(k - 1)
                     v == occ[k].value
                 IN IF v.kind = "null" \/ (v.kind = "array" /\ v.items = << >>)
                    THEN [len |-> 0, elems |-> << >>]
                    ELSE IF v.kind = "array"
                         THEN [len |-> Len(v.items),
                               elems |->
                                   [i \in 1..(IF Len(v.items) > Len(slice.elems)
                                              THEN Len(v.items)
                                              ELSE Len(slice.elems)) |->
                                       Element(slice, v.items, i)]]
                         ELSE slice
        InSight(details) ==
            [j \in 1..details.len |->
                [Field |-> details.elems[j].Field,
                 Issue |-> details.elems[j].Issue,
                 Links |-> SubSeq(details.elems[j].Links.elems, 1,
                                  details.elems[j].Links.len)]]
    IN InSight(After(Len(occ)))

\* json decoding of a body into an ErrorResponse returns an error
ErrorResponseFails(body) ==
    \/ ~body.wellformed
    \/ IF body.doc.kind = "object"
       THEN \/ \E tag \in {json_tag.name, json_tag.debug_id, json_tag.message, json_tag.information_link} :
                   MemberFails(body.doc, tag)
            \/ LET occ == Occurrences(body.doc, json_tag.details)
               IN \E k \in 1..Len(occ) :
                      IF occ[k].value.kind = "array"
                      THEN \E i \in 1..Len(occ[k].value.items) :
                               ErrorResponseDetailFails(occ[k].value.items[i])
                      ELSE occ[k].value.kind # "null"
       ELSE body.doc.kind # "null"

\* the bodies of the model, and the empty object, decoded into a new
\* ErrorResponse once: whether decoding returns an error, and the details
Decodings ==
    [body \in Bodies \cup {WellFormed(Obj(<< >>))} |->
        [fails |-> ErrorResponseFails(body),
         Details |-> IF body.wellformed THEN DetailsOf(body.doc) ELSE << >>]]

\* an error that loses its response
ErrorResponseOf_Detached(resp, doc) ==
    [Response |-> Nil,
     Name |-> Member(MembersOf(doc), json_tag.name, ""),
     DebugID |-> Member(MembersOf(doc), json_tag.debug_id, ""),
     Message |-> Member(MembersOf(doc), json_tag.message, ""),
     InformationLink |-> Member(MembersOf(doc), json_tag.information_link, ""),
     Details |-> LET Known(decoded) == IF WellFormed(doc) \in DOMAIN decoded
                                       THEN decoded[WellFormed(doc)].Details
                                       ELSE DetailsOf(doc)
                 IN Known(Decodings)]

\* ErrorResponse and its json tags; Response (json:"-") is never read from
\* the body
ErrorResponseOf(resp, doc) ==
    [Response |-> Ref(resp),
     Name |-> Member(MembersOf(doc), json_tag.name, ""),
     DebugID |-> Member(MembersOf(doc), json_tag.debug_id, ""),
     Message |-> Member(MembersOf(doc), json_tag.message, ""),
     InformationLink |-> Member(MembersOf(doc), json_tag.information_link, ""),
     Details |-> LET Known(decoded) == IF WellFormed(doc) \in DOMAIN decoded
                                       THEN decoded[WellFormed(doc)].Details
                                       ELSE DetailsOf(doc)
                 IN Known(Decodings)]

\* func (r *ErrorResponse) Error() string: the method and URL of the request
\* of the response, its status code, the message and the details, in the
\* order of the format "%v %v: %d %s, %+v".  Dereferencing a nil Response or a
\* nil Request panics.
Error(r) ==
    IF r.Response = Nil
    THEN [panics |-> TRUE, text |-> << >>]
    ELSE IF Deref(r.Response).Request = Nil
         THEN [panics |-> TRUE, text |-> << >>]
         ELSE [panics |-> FALSE,
               text |-> << Deref(Deref(r.Response).Request).Method,
                           Deref(Deref(r.Response).Request).URL,
                           Deref(r.Response).StatusCode, r.Message, r.Details >>]

\* 4.3: the message of an error whose body does not parse
GenericMessage == "unexpected response"

\* an error body that does not parse reported as a decode failure
ErrorOf_DecodeFailure(resp) ==
    IF ~(IF resp.Body \in DOMAIN Decodings THEN Decodings[resp.Body].fails
         ELSE ErrorResponseFails(resp.Body))
    THEN RemoteError(ErrorResponseOf(resp, resp.Body.doc))
    ELSE DecodeError

\* 4.3: outside 200..299 the body is deserialized into a structured error that
\* carries the response; a body that does not parse leaves a minimal one
ErrorOf(resp) ==
    IF ~(IF resp.Body \in DOMAIN Decodings THEN Decodings[resp.Body].fails
         ELSE ErrorResponseFails(resp.Body))
    THEN RemoteError(ErrorResponseOf(resp, resp.Body.doc))
    ELSE RemoteError([ErrorResponseOf(resp, Obj(<< >>)) EXCEPT !.Message = GenericMessage])

\* a decoder that takes a malformed body for an empty one
SuccessOf_Lenient(resp, out) ==
    IF resp.Body.wellformed
    THEN [err |-> NoError, out |-> Ref(resp.Body.doc), writes |-> 1]
    ELSE [err |-> NoError, out |-> out, writes |-> 0]

\* 4.3: in 200..299 the body is deserialized into the shape out points to
SuccessOf(resp, out) ==
    IF resp.Body.wellformed
    THEN [err |-> NoError, out |-> Ref(resp.Body.doc), writes |-> 1]
    ELSE [err |-> DecodeError, out |-> out, writes |-> 0]

\* 4.3 Decode(response, outPointer): the error returned, what out points to
\* afterwards, and how many times it was written.  out is Nil or Ref of the
\* shape it points to.
Decode(resp, out) ==
    IF Is2xx(resp.StatusCode)
    THEN IF out = Nil
         THEN [err |-> NoError, out |-> out, writes |-> 0]
         ELSE SuccessOf(resp, out)
    ELSE [err |-> ErrorOf(resp), out |-> out, writes |-> 0]

\* -------------------------------------------------------------- TokenManager
\* 4.1: "a current token exists and its expiry minus a fixed safety margin is
\* still in the future"
Fresh(tok, expiresAt, t) ==
    /\ tok # Nil
    /\ expiresAt - RequestNewTokenBeforeExpiresIn > t

\* 4.1: the cached token is returned when it is fresh and forceRefresh is false
CacheHit(force, tok, expiresAt, t) == ~force /\ Fresh(tok, expiresAt, t)

\* 4.1: absolute expiry = fetch-completion time + relative seconds
ExpiryOf(t, resp) == t + resp.ExpiresIn

\* a caller starts a call; every started call may still send its fetch
Invoke(c, k) ==
    /\ pc[c] = "idle"
    /\ fetches + Cardinality({d \in Callers : pc[d] = "wait"}) < MaxFetches
    /\ pc' = [pc EXCEPT ![c] = "wait"]
    /\ kind' = [kind EXCEPT ![c] = k]
    /\ UNCHANGED << now, holders, Token, tokenExpiresAt, seen, fetched, ret,
                    fetches, lastOk >>

\* EnsureValid takes the guard and checks the stored pair: a hit returns the
\* cached token, anything else sends the credential-grant request
Enter(c) ==
    /\ pc[c] = "wait"
    /\ MutexCanLock(holders)
    /\ holders' = MutexLock(holders, c)
    /\ seen' = [seen EXCEPT ![c] =
                   [Token |-> Token, tokenExpiresAt |-> tokenExpiresAt, at |-> now,
                    fetches |-> fetches]]
    /\ IF CacheHit(ForceRefresh(kind[c]), Token, tokenExpiresAt, now)
       THEN /\ pc' = [pc EXCEPT ![c] = "unlock"]
            /\ ret' = [ret EXCEPT ![c] =
                          [done |-> TRUE, err |-> FALSE, token |-> Deref(Token).Token,
                           error |-> NoError]]
            /\ UNCHANGED fetches
       ELSE /\ pc' = [pc EXCEPT ![c] = "fetch"]
            /\ fetches' = fetches + 1
            /\ UNCHANGED ret
    /\ UNCHANGED << now, Token, tokenExpiresAt, kind, fetched, lastOk >>

\* the next access token the endpoint grants
NextAccessToken == IF lastOk = Nil THEN 1 ELSE Deref(lastOk).access_token + 1

\* 4.1: the fetch fails on a non-2xx status or on a body that does not parse
AuthFails(ans) == ~Is2xx(ans.status) \/ DecodeTokenResponseFails(ans.body)

\* answers of the token endpoint: a status and a body
BadExpiresInForms == {"fraction", "word", "bool"}
GoodTokenBodies(tok) ==
    UNION {{TokenBody(tok, form, e) : form \in GrantForms[e]} : e \in ExpiresInValues}
\* bodies that do not decode: an expires_in the codec rejects, no JSON, and
\* JSON that is an array
BadTokenBodies(tok) ==
    {TokenBody(tok, form, 3600) : form \in BadExpiresInForms}
    \cup {Malformed, WellFormed(Arr(<< >>))}
\* a request that failed in transport: no response, so no status and no body
TransportFailure == [status |-> 0, body |-> Malformed]
BadTokenAnswers(tok) ==
    {TransportFailure}
    \cup {[status |-> 200, body |-> b] : b \in BadTokenBodies(tok)}
    \cup {[status |-> st, body |-> b] :
             st \in {199, 300, 401, 500},
             b \in {TokenBody(tok, "number", 3600), Malformed}}
TokenAnswers(tok) ==
    {[status |-> st, body |-> b] : st \in {200, 299}, b \in GoodTokenBodies(tok)}
    \cup BadTokenAnswers(tok)

\* what the endpoint granted, as it wrote it in the body: the access token,
\* and the lifetime in seconds, none written standing for 0
Granted(body) ==
    LET token == Occurrences(TokenDoc(body), json_tag.access_token)
        life == Occurrences(TokenDoc(body), json_tag.expires_in)
    IN [access_token |-> IF token = << >> THEN 0 ELSE token[Len(token)].value.val,
        expires_in |-> IF life = << >> THEN 0 ELSE life[Len(life)].value.val]

\* 4.1: the request of the credential grant, a POST to the token endpoint;
\* the credentials of its basic authentication are not spelled out
TokenRequest ==
    [Method |-> "POST", URL |-> << config.APIBase, "/oauth2/token" >>,
     Header |-> [h \in {"Authorization"} |-> << "Basic" >>]]

\* 4.1/7: the error of a failed fetch.  An endpoint that answers outside
\* 200..299 answers with an error, and the AuthError carries it as the
\* decoder of 4.3 builds it from the response: the structured error of the
\* body, or the minimal one of a body that does not parse.  A fetch that got
\* no response, or a 2xx body that is no token response, has none to carry.
AuthError(ans) ==
    [kind |-> "AuthError",
     detail |-> IF ans = TransportFailure \/ Is2xx(ans.status)
                THEN Nil
                ELSE ErrorOf([StatusCode |-> ans.status, Body |-> ans.body,
                              Request |-> Ref(TokenRequest)]).detail]

\* the answer of the token endpoint arrives: a failed fetch makes EnsureValid
\* fail with an AuthError, a good one is decoded and kept for the store
FetchDone(c, ans) ==
    /\ pc[c] = "fetch"
    /\ IF AuthFails(ans)
       THEN /\ pc' = [pc EXCEPT ![c] = "unlock"]
            /\ ret' = [ret EXCEPT ![c] = [done |-> TRUE, err |-> TRUE, token |-> 0,
                                          error |-> AuthError(ans)]]
            /\ UNCHANGED << fetched, lastOk >>
       ELSE /\ LET done == [response |-> DecodeTokenResponse(ans.body),
                            access_token |-> Granted(ans.body).access_token,
                            expires_in |-> Granted(ans.body).expires_in,
                            doneAt |-> now]
               IN /\ fetched' = [fetched EXCEPT ![c] = Ref(done)]
                  /\ lastOk' = Ref(done)
            /\ pc' = [pc EXCEPT ![c] = "storeToken"]
            /\ UNCHANGED ret
    /\ UNCHANGED << now, holders, Token, tokenExpiresAt, kind, seen, fetches >>

\* the token endpoint answers 200 with a parsable body
\* the answers that grant a token, by the number of the token granted
GrantingAnswers ==
    [tok \in 1..(MaxFetches + 2) |->
        [e \in ExpiresInValues |->
            [form \in GrantForms[e] |->
                [status |-> 200, body |-> TokenBody(tok, form, e)]]]]
FetchOk(c, form, e) ==
    /\ pc[c] = "fetch"
    /\ form \in GrantForms[e]
    /\ FetchDone(c, GrantingAnswers[NextAccessToken][e][form])

\* the two assignments that replace the stored pair
StoreToken(c) ==
    /\ pc[c] = "storeToken"
    /\ Token' = Ref(Deref(fetched[c]).response)
    /\ pc' = [pc EXCEPT ![c] = "storeExpiry"]
    /\ UNCHANGED << now, holders, tokenExpiresAt, kind, seen, fetched, ret,
                    fetches, lastOk >>

StoreExpiry(c) ==
    /\ pc[c] = "storeExpiry"
    /\ tokenExpiresAt' = ExpiryOf(now, Deref(fetched[c]).response)
    /\ pc' = [pc EXCEPT ![c] = "unlock"]
    /\ ret' = [ret EXCEPT ![c] =
                  [done |-> TRUE, err |-> FALSE,
                   token |-> Deref(fetched[c]).response.Token, error |-> NoError]]
    /\ UNCHANGED << now, holders, Token, kind, seen, fetched, fetches, lastOk >>

\* the token endpoint answers non-2xx or with an unparsable body: AuthError
\* the failing answers, by the number of the token the endpoint would grant
FailingAnswers == [tok \in 1..(MaxFetches + 2) |-> BadTokenAnswers(tok)]

FetchFail(c) == \E ans \in FailingAnswers[NextAccessToken] : FetchDone(c, ans)

\* an Execute that sends its business request whatever EnsureValid returned
Unlock_SendsAnyway(c) ==
    /\ pc[c] = "unlock"
    /\ holders' = MutexUnlock(holders, c)
    /\ IF kind[c] = "Exec"
       THEN /\ pc' = [pc EXCEPT ![c] = "business"]
            /\ UNCHANGED << kind, ret >>
       ELSE /\ pc' = [pc EXCEPT ![c] = "idle"]
            /\ kind' = [kind EXCEPT ![c] = "EV"]
            /\ ret' = [ret EXCEPT ![c] = NoRet]
    /\ seen' = [seen EXCEPT ![c] = NoSeen]
    /\ fetched' = [fetched EXCEPT ![c] = Nil]
    /\ UNCHANGED << now, Token, tokenExpiresAt, fetches, lastOk >>

\* the guard is released and EnsureValid returns; Execute then sends its
\* business request with the token as bearer, or fails with the AuthError.
\* A call that has returned leaves nothing behind in its caller.
Unlock(c) ==
    /\ pc[c] = "unlock"
    /\ holders' = MutexUnlock(holders, c)
    /\ IF kind[c] = "Exec" /\ ~ret[c].err
       THEN /\ pc' = [pc EXCEPT ![c] = "business"]
            /\ UNCHANGED << kind, ret >>
       ELSE /\ pc' = [pc EXCEPT ![c] = "idle"]
            /\ kind' = [kind EXCEPT ![c] = "EV"]
            /\ ret' = [ret EXCEPT ![c] = NoRet]
    /\ seen' = [seen EXCEPT ![c] = NoSeen]
    /\ fetched' = [fetched EXCEPT ![c] = Nil]
    /\ UNCHANGED << now, Token, tokenExpiresAt, fetches, lastOk >>

\* a response that makes the client drop its token
BusinessDone_DropsToken(c) ==
    /\ pc[c] = "business"
    /\ pc' = [pc EXCEPT ![c] = "idle"]
    /\ kind' = [kind EXCEPT ![c] = "EV"]
    /\ ret' = [ret EXCEPT ![c] = NoRet]
    /\ Token' = Nil
    /\ UNCHANGED << now, holders, tokenExpiresAt, seen, fetched, fetches, lastOk >>

\* the business response arrives and Execute returns
BusinessDone(c) ==
    /\ pc[c] = "business"
    /\ pc' = [pc EXCEPT ![c] = "idle"]
    /\ kind' = [kind EXCEPT ![c] = "EV"]
    /\ ret' = [ret EXCEPT ![c] = NoRet]
    /\ UNCHANGED << now, holders, Token, tokenExpiresAt, seen, fetched, fetches,
                    lastOk >>

\* callers in a place where time passes
Blocked(c) == pc[c] \in {"idle", "wait", "fetch", "business"}

Tick ==
    /\ now < MaxTime
    /\ \A c \in Callers : Blocked(c)
    /\ now' = now + 1
    /\ UNCHANGED << holders, Token, tokenExpiresAt, pc, kind, seen, fetched,
                    ret, fetches, lastOk >>

\* the general system records no history, and leaves out the frames of
\* Execute and the codec calls
Quiet == UNCHANGED << log, exec, cod, config >>

Next ==
    \/ \E c \in Callers, k \in Kinds : Invoke(c, k) /\ Quiet
    \/ \E c \in Callers : Enter(c) /\ Quiet
    \/ \E c \in Callers, form \in ExpiresInForms, e \in ExpiresInValues :
           FetchOk(c, form, e) /\ Quiet
    \/ \E c \in Callers : FetchFail(c) /\ Quiet
    \/ \E c \in Callers : StoreToken(c) /\ Quiet
    \/ \E c \in Callers : StoreExpiry(c) /\ Quiet
    \/ \E c \in Callers : Unlock(c) /\ Quiet
    \/ \E c \in Callers : BusinessDone(c) /\ Quiet
    \/ Tick /\ Quiet

Spec == Init /\ [][Next]_vars

\* fetch requests sent since c's check
FetchesInCall(c) == fetches - seen[c].fetches

\* -------------------------------------------------- the client between calls
\* what one completed fetch of access token 1 leaves behind
FirstFetch(e, d) ==
    [response |-> DecodeTokenResponse(TokenBody(1, "number", e)),
     access_token |-> 1, expires_in |-> e, doneAt |-> d]

\* a client that no caller is using: newly constructed, or holding the pair
\* of a fetch that completed at some time up to now; with or without a log
\* sink
InitClient ==
    /\ now \in 0..MaxTime
    /\ \/ Token = Nil /\ tokenExpiresAt = 0 /\ lastOk = Nil
       \/ \E e \in ExpiresInValues, d \in 0..now :
             /\ Token = Ref(FirstFetch(e, d).response)
             /\ tokenExpiresAt = ExpiryOf(d, FirstFetch(e, d).response)
             /\ lastOk = Ref(FirstFetch(e, d))
    /\ holders = {}
    /\ seen = [c \in Callers |-> NoSeen]
    /\ fetched = [c \in Callers |-> Nil]
    /\ ret = [c \in Callers |-> NoRet]
    /\ fetches = 0
    /\ log = << >>
    /\ exec = [c \in Callers |-> NoExec]
    /\ config \in {[NewConfig EXCEPT !.Log = sink] : sink \in Sinks}
    /\ cod = NoCodec

\* ------------------------------------- a burst of concurrent EnsureValid(false)
\* every caller has invoked EnsureValid(false) on a client whose token is
\* stale: absent, or within the safety margin of its expiry
InitBurst ==
    /\ InitClient
    /\ ~Fresh(Token, tokenExpiresAt, now)
    /\ pc = [c \in Callers |-> "wait"]
    /\ kind = [c \in Callers |-> "EV"]

\* the history keeps what EnsureValid returned to each caller, when, and the
\* expiry recorded then
RecordReturn(c) ==
    /\ log' = Append(log, [caller |-> c, err |-> ret[c].err, token |-> ret[c].token,
                        fetched |-> FetchesInCall(c),
                        expiresAt |-> tokenExpiresAt, at |-> now])
    /\ UNCHANGED << exec, cod, config >>

NextBurst ==
    \/ \E c \in Callers : Enter(c) /\ Quiet
    \/ \E c \in Callers, form \in ExpiresInForms, e \in ExpiresInValues :
           FetchOk(c, form, e) /\ Quiet
    \/ \E c \in Callers : FetchFail(c) /\ Quiet
    \/ \E c \in Callers : StoreToken(c) /\ Quiet
    \/ \E c \in Callers : StoreExpiry(c) /\ Quiet
    \/ \E c \in Callers : Unlock(c) /\ RecordReturn(c)
    \/ Tick /\ Quiet

SpecBurst == InitBurst /\ [][NextBurst]_vars

\* ------------------------- successive EnsureValid(false) with no elapsed time
InitIdem ==
    /\ InitClient
    /\ pc = [c \in Callers |-> "idle"]
    /\ kind = [c \in Callers |-> "EV"]

\* the history keeps the outcome of each fetch
RecordFetchOk(c) ==
    /\ log' = Append(log, [ok |-> TRUE, expires_in |-> Deref(fetched'[c]).expires_in])
    /\ UNCHANGED << exec, cod, config >>

RecordFetchFail ==
    /\ log' = Append(log, [ok |-> FALSE, expires_in |-> 0])
    /\ UNCHANGED << exec, cod, config >>

NextIdem ==
    \/ \E c \in Callers : Invoke(c, "EV") /\ Quiet
    \/ \E c \in Callers : Enter(c) /\ Quiet
    \/ \E c \in Callers, form \in ExpiresInForms, e \in ExpiresInValues :
           FetchOk(c, form, e) /\ RecordFetchOk(c)
    \/ \E c \in Callers : FetchFail(c) /\ RecordFetchFail
    \/ \E c \in Callers : StoreToken(c) /\ Quiet
    \/ \E c \in Callers : StoreExpiry(c) /\ Quiet
    \/ \E c \in Callers : Unlock(c) /\ Quiet

SpecIdem == InitIdem /\ [][NextIdem]_vars

\* ------------------------------ the order in which EnsureValid hands out tokens
\* the history keeps the newest token any call has returned so far, and for
\* each caller inside EnsureValid what that was when it took the guard
NoOrder == [handed |-> 0, before |-> [c \in Callers |-> 0]]

InitOrder ==
    /\ now = 0
    /\ holders = {}
    /\ Token = Nil
    /\ tokenExpiresAt = 0
    /\ pc = [c \in Callers |-> "idle"]
    /\ kind = [c \in Callers |-> "EV"]
    /\ seen = [c \in Callers |-> NoSeen]
    /\ fetched = [c \in Callers |-> Nil]
    /\ ret = [c \in Callers |-> NoRet]
    /\ fetches = 0
    /\ lastOk = Nil
    /\ log = NoOrder
    /\ exec = [c \in Callers |-> NoExec]
    /\ config = NewConfig
    /\ cod = NoCodec

RecordAcquire(c) ==
    /\ log' = [log EXCEPT !.before[c] = log.handed]
    /\ UNCHANGED << exec, cod, config >>

RecordHandOut(c) ==
    /\ log' = [handed |-> IF ~ret[c].err /\ ret[c].token > log.handed
                          THEN ret[c].token ELSE log.handed,
               before |-> [log.before EXCEPT ![c] = 0]]
    /\ UNCHANGED << exec, cod, config >>

NextOrder ==
    \/ \E c \in Callers, k \in {"EV", "EVForce"} : Invoke(c, k) /\ Quiet
    \/ \E c \in Callers : Enter(c) /\ RecordAcquire(c)
    \/ \E c \in Callers, form \in ExpiresInForms, e \in ExpiresInValues :
           FetchOk(c, form, e) /\ Quiet
    \/ \E c \in Callers : FetchFail(c) /\ Quiet
    \/ \E c \in Callers : StoreToken(c) /\ Quiet
    \/ \E c \in Callers : StoreExpiry(c) /\ Quiet
    \/ \E c \in Callers : Unlock(c) /\ RecordHandOut(c)
    \/ Tick /\ Quiet

SpecOrder == InitOrder /\ [][NextOrder]_vars

\* --------------------------------------------- progress of EnsureValid callers
\* callers keep calling EnsureValid, forced or not, on a new client
NextLive ==
    \/ \E c \in Callers, k \in {"EV", "EVForce"} : Invoke(c, k) /\ Quiet
    \/ \E c \in Callers : Enter(c) /\ Quiet
    \/ \E c \in Callers, form \in ExpiresInForms, e \in ExpiresInValues :
           FetchOk(c, form, e) /\ Quiet
    \/ \E c \in Callers : FetchFail(c) /\ Quiet
    \/ \E c \in Callers : StoreToken(c) /\ Quiet
    \/ \E c \in Callers : StoreExpiry(c) /\ Quiet
    \/ \E c \in Callers : Unlock(c) /\ Quiet

\* the token endpoint answers every request, well or badly
FetchEnds(c) ==
    \/ FetchFail(c)
    \/ \E form \in ExpiresInForms, e \in ExpiresInValues : FetchOk(c, form, e)

\* a goroutine that can run does run; sync.Mutex hands the lock to a waiter
\* that keeps failing to get it (starvation mode), so a waiter for which the
\* lock is free again and again gets it; nothing obliges a caller to call
Fairness ==
    \A c \in Callers :
        /\ SF_vars(Enter(c) /\ Quiet)
        /\ WF_vars(FetchEnds(c) /\ Quiet)
        /\ WF_vars(StoreToken(c) /\ Quiet)
        /\ WF_vars(StoreExpiry(c) /\ Quiet)
        /\ WF_vars(Unlock(c) /\ Quiet)

SpecLive == Init /\ [][NextLive]_vars /\ Fairness

\* ---------------------------------------------------------- RequestExecutor
HeaderNames == {"Authorization", "Content-Type", "PayPal-Request-Id"}
Bearer(tok) == << "Bearer", tok >>

\* extraHeaders: the caller gives its own value to the headers of a set
CallerHeaders(names) == [h \in names |-> << "caller", h >>]
ExtraHeaderMaps ==
    {CallerHeaders(names) :
        names \in {{}, {"Authorization"}, {"Content-Type", "PayPal-Request-Id"},
                   HeaderNames}}

\* 4.2: the headers Execute sets itself: the content type of a body, and the
\* bearer token
DefaultHeaders(hasBody, tok) ==
    [h \in {"Authorization"} \cup (IF hasBody THEN {"Content-Type"} ELSE {}) |->
        IF h = "Authorization" THEN Bearer(tok) ELSE << "application/json" >>]

\* a merge in which the caller's value always wins
MergeHeaders_CallerWins(defaults, extra) ==
    [h \in DOMAIN defaults \cup DOMAIN extra |->
        IF h \in DOMAIN extra THEN extra[h] ELSE defaults[h]]

\* 4.2: extraHeaders are merged last and override the defaults, but never the
\* authorization header
MergeHeaders(defaults, extra) ==
    [h \in DOMAIN defaults \cup DOMAIN extra |->
        IF h \in DOMAIN extra /\ h # "Authorization" THEN extra[h] ELSE defaults[h]]

\* the inputs of Execute(method, path, body, authRequired = true, extraHeaders)
\* and the output pointer handed to the decoder
ZeroShape == [zero |-> TRUE]
ExecInputs ==
    {[method |-> m, path |-> "/v2/checkout/orders", hasBody |-> (m = "POST"),
      extra |-> x, out |-> o] :
        m \in {"GET", "POST"}, x \in ExtraHeaderMaps, o \in {Nil, Ref(ZeroShape)}}

\* 4.2: the request composed for the inputs and the bearer token
NewRequest(in, tok) ==
    [Method |-> in.method, URL |-> << config.APIBase, in.path >>,
     Header |-> MergeHeaders(DefaultHeaders(in.hasBody, tok), in.extra)]

\* 4.2: the log hook.  With a sink configured the request and the response,
\* Nil when none was obtained, are written to it as they are, and Write
\* returns an error or none; with no sink nothing is written.  written is
\* what the sink holds.
WriteLog(sink, written, req, resp) ==
    CASE sink = "none" -> [log |-> written, err |-> FALSE]
      [] sink = "ok" -> [log |-> Append(written, [request |-> req, response |-> resp]),
                         err |-> FALSE]
      [] OTHER -> [log |-> written, err |-> TRUE]

\* a request sent again on a server error
Resends_OnServerError(resp) == IF resp.StatusCode >= 500 THEN 1 ELSE 0
\* 4.2: no automatic retry
Resends(resp) == 0

\* what Execute returns: the raw response, the error, and what the output
\* pointer points to
AuthFailed(in, error) == [err |-> error, raw |-> Nil, out |-> in.out, writes |-> 0]
TransportFailed(in) == [err |-> TransportError, raw |-> Nil, out |-> in.out, writes |-> 0]
\* a failed write to the sink returned as the error of the call
Received_WriteErrorReturned(in, resp) ==
    LET d == Decode(resp, in.out)
    IN IF WriteLog(config.Log, log, Nil, Nil).err
       THEN [err |-> TransportError, raw |-> Ref(resp), out |-> d.out, writes |-> d.writes]
       ELSE [err |-> d.err, raw |-> Ref(resp), out |-> d.out, writes |-> d.writes]
\* 4.2: Execute hands the response to the decoder and returns what it returns
Received(in, resp) ==
    LET d == Decode(resp, in.out)
    IN [err |-> d.err, raw |-> Ref(resp), out |-> d.out, writes |-> d.writes]

\* business responses
Statuses == {199, 200, 204, 299, 300, 422, 500}

\* the answer of the token endpoint arrives, or the fetch fails in transport;
\* the request and the response go to the sink, and the frame keeps the answer
ExecAnswer(c, ans) ==
    /\ FetchDone(c, ans)
    /\ exec' = [exec EXCEPT ![c].answer = Ref(ans)]
    /\ log' = WriteLog(config.Log, log, Ref(TokenRequest),
                       IF ans = TransportFailure THEN Nil ELSE Ref(ans)).log
    /\ UNCHANGED << cod, config >>

\* EnsureValid returns to Execute, which fails with its error or composes and
\* sends the business request
ExecSend(c, in) ==
    /\ Unlock(c)
    /\ exec' = [exec EXCEPT ![c] =
                   IF ret[c].err
                   THEN [@ EXCEPT !.auth = Ref(ret[c]), !.in = Ref(in),
                                  !.result = Ref(AuthFailed(in, ret[c].error))]
                   ELSE [@ EXCEPT !.answer = Nil, !.auth = Ref(ret[c]), !.in = Ref(in),
                                  !.req = Ref(NewRequest(in, ret[c].token)),
                                  !.sends = @ + 1,
                                  !.sentAt = Ref([Token |-> Token,
                                                  tokenExpiresAt |-> tokenExpiresAt,
                                                  fetches |-> fetches])]]
    /\ UNCHANGED << log, cod, config >>

\* the business response arrives: the request and the response go to the
\* sink, and the response is decoded and returned
ExecResponse(c, st, body) ==
    /\ BusinessDone(c)
    /\ LET resp == [StatusCode |-> st, Body |-> body, Request |-> exec[c].req]
       IN /\ log' = WriteLog(config.Log, log, exec[c].req, Ref(resp)).log
          /\ exec' = [exec EXCEPT ![c] =
                         [@ EXCEPT !.resp = Ref(resp),
                                   !.sends = @ + Resends(resp),
                                   !.result = Ref(Received(Deref(exec[c].in), resp))]]
    /\ UNCHANGED << cod, config >>

\* the business request fails in transport: the request goes to the sink with
\* no response
ExecTransportFail(c) ==
    /\ BusinessDone(c)
    /\ log' = WriteLog(config.Log, log, exec[c].req, Nil).log
    /\ exec' = [exec EXCEPT ![c] =
                   [@ EXCEPT !.result = Ref(TransportFailed(Deref(exec[c].in)))]]
    /\ UNCHANGED << cod, config >>

\* caller 1 has called Execute on a client that no one else is using
InitExec ==
    /\ InitClient
    /\ pc = [c \in Callers |-> IF c = 1 THEN "wait" ELSE "idle"]
    /\ kind = [c \in Callers |-> IF c = 1 THEN "Exec" ELSE "EV"]

NextExec ==
    \/ \E c \in Callers : Enter(c) /\ Quiet
    \/ \E c \in Callers :
           /\ pc[c] = "fetch"
           /\ \E ans \in TokenAnswers(NextAccessToken) : ExecAnswer(c, ans)
    \/ \E c \in Callers : StoreToken(c) /\ Quiet
    \/ \E c \in Callers : StoreExpiry(c) /\ Quiet
    \/ \E c \in Callers, in \in ExecInputs : ExecSend(c, in)
    \/ \E c \in Callers, st \in Statuses, body \in Bodies : ExecResponse(c, st, body)
    \/ \E c \in Callers : ExecTransportFail(c)
    \/ Tick /\ Quiet

SpecExec == InitExec /\ [][NextExec]_vars

\* ------------------------------------------------ calls of the expires_in codec
\* integers around the ends of the 32-bit and 64-bit ranges
BigInts ==
    {IntVal(sg, m) : sg \in BOOLEAN,
                     m \in {<< 2,1,4,7,4,8,3,6,4,7 >>, << 2,1,4,7,4,8,3,6,4,8 >>,
                            << 4,2,9,4,9,6,7,2,9,6 >>,
                            << 9,2,2,3,3,7,2,0,3,6,8,5,4,7,7,5,8,0,6 >>,
                            << 9,2,2,3,3,7,2,0,3,6,8,5,4,7,7,5,8,0,7 >>,
                            << 9,2,2,3,3,7,2,0,3,6,8,5,4,7,7,5,8,0,8 >>,
                            << 9,2,2,3,3,7,2,0,3,6,8,5,4,7,7,5,8,0,9 >>,
                            << 1,0,0,0,0,0,0,0,0,0,0,0,0,0,0,0,0,0,0,0 >>}}
SmallInts == {FromInt(k) : k \in (-MaxSmall..MaxSmall) \cup ExpiresInValues}
IntSamples == SmallInts \cup BigInts

\* the signed 64-bit range: -(1 << 63) .. (1 << 63) - 1
InInt64(v) == IF v.neg THEN ~MagLess(Cutoff64, v.mag) ELSE MagLess(v.mag, Cutoff64)

\* values that are no integer in decimal digits
OtherJSON ==
    {[kind |-> "number", text |-> t] :
        t \in {<< "1", ".", "5" >>, << "1", "e", "3" >>, << "-", "0" >>, << "6", "0", ".", "0" >>}}
    \cup {[kind |-> "string", text |-> t] :
        t \in {<< >>, << "a", "b", "c" >>, << "1", ".", "5" >>, << "0", "0", "7" >>,
               << "+", "5" >>, << "-" >>, << "6", "0", "s" >>, << "1", "e" >>,
               << "1", "e", "+" >>, << "1", "." >>}}
    \cup {[kind |-> k, text |-> << >>] : k \in {"null", "bool", "object", "array"}}

\* the destinations: the zero value, and a value decoded before
Destinations == {Zero, FromInt(3600)}

\* a call about to be made.  n is Ref of the integer whose decimal digits the
\* input carries, Nil when the input was not made from an integer.
CodecCalls ==
    {[stage |-> "input", n |-> Ref(v), b |-> [kind |-> k, text |-> FormatInt(v)],
      e0 |-> d, err |-> FALSE, e |-> d] :
        v \in IntSamples, k \in {"number", "string"}, d \in Destinations}
    \cup {[stage |-> "input", n |-> Nil, b |-> b, e0 |-> d, err |-> FALSE, e |-> d] :
        b \in OtherJSON, d \in Destinations}

InitCodec == NewClient /\ cod \in CodecCalls

\* the decoder calls UnmarshalJSON on the destination
Unmarshal ==
    /\ cod.stage = "input"
    /\ cod' = [cod EXCEPT !.stage = "done",
                          !.err = UnmarshalJSON(cod.e0, cod.b).err,
                          !.e = UnmarshalJSON(cod.e0, cod.b).e]
    /\ UNCHANGED << now, holders, Token, tokenExpiresAt, pc, kind, seen, fetched,
                    ret, fetches, lastOk, log, exec, config >>

NextCodec == Unmarshal

SpecCodec == InitCodec /\ [][NextCodec]_vars

\* ------------------------------------------------------- the timestamp codec
\* A time.Time is an instant and a location: day is the number of days since
\* 1970-01-01 UTC, sec the second of that UTC day, nsec the nanoseconds, and
\* offset the seconds east of UTC of its location.
Instant(day, sec, nsec, offset) == [day |-> day, sec |-> sec, nsec |-> nsec, offset |-> offset]

\* the proleptic Gregorian calendar: days since 1970-01-01 of a civil date
DaysFromCivil(y, m, d) ==
    LET yy == IF m <= 2 THEN y - 1 ELSE y
        era == yy \div 400
        yoe == yy - era * 400
        doy == (153 * (IF m > 2 THEN m - 3 ELSE m + 9) + 2) \div 5 + d - 1
        doe == yoe * 365 + yoe \div 4 - yoe \div 100 + doy
    IN era * 146097 + doe - 719468

\* the civil date of a day number
CivilFromDays(z) ==
    LET zz == z + 719468
        era == zz \div 146097
        doe == zz - era * 146097
        yoe == (doe - doe \div 1460 + doe \div 36524 - doe \div 146096) \div 365
        doy == doe - (365 * yoe + yoe \div 4 - yoe \div 100)
        mp == (5 * doy + 2) \div 153
        d == doy - (153 * mp + 2) \div 5 + 1
        m == IF mp < 10 THEN mp + 3 ELSE mp - 9
    IN [year |-> yoe + era * 400 + (IF m <= 2 THEN 1 ELSE 0), month |-> m, day |-> d]

\* Time.UTC(): the same instant, located in UTC
UTC(t) == [t EXCEPT !.offset = 0]

\* an integer in decimal, padded with zeros to a width, a minus sign first
\* when it is negative
RECURSIVE ZeroPad(_, _)
ZeroPad(ds, width) == IF Len(ds) >= width THEN ds ELSE ZeroPad(<< 0 >> \o ds, width)
AppendInt(n, width) ==
    LET ds == ZeroPad(NatDigits(IF n < 0 THEN -n ELSE n), width)
    IN (IF n < 0 THEN << "-" >> ELSE << >>) \o [i \in 1..Len(ds) |-> DigitChars[ds[i] + 1]]

\* Time.Format(time.RFC3339), layout "2006-01-02T15:04:05Z07:00": the civil
\* time in the location of t, whole seconds only, then Z for UTC or the
\* offset as +hh:mm
Format_RFC3339(t) ==
    LET local == t.sec + t.offset
        day == t.day + local \div 86400
        s == local % 86400
        date == CivilFromDays(day)
        off == IF t.offset < 0 THEN -t.offset ELSE t.offset
    IN AppendInt(date.year, 4) \o << "-" >> \o AppendInt(date.month, 2) \o << "-" >>
       \o AppendInt(date.day, 2) \o << "T" >> \o AppendInt(s \div 3600, 2) \o << ":" >>
       \o AppendInt((s % 3600) \div 60, 2) \o << ":" >> \o AppendInt(s % 60, 2)
       \o (IF t.offset = 0
           THEN << "Z" >>
           ELSE << (IF t.offset < 0 THEN "-" ELSE "+") >> \o AppendInt(off \div 3600, 2)
                \o << ":" >> \o AppendInt((off % 3600) \div 60, 2))

\* func (t JSONTime) MarshalJSON() ([]byte, error): the quoted stamp of
\* time.Time(t).UTC().Format(time.RFC3339); the error is always nil
MarshalJSON(t) == << "\"" >> \o Format_RFC3339(UTC(t)) \o << "\"" >>

\* the form YYYY-MM-DDThh:mm:ssZ
DigitsAt(s, from, to) == \A i \in from..to : IsDigit(s[i])
IsStampForm(s) ==
    /\ Len(s) = 20
    /\ DigitsAt(s, 1, 4) /\ s[5] = "-" /\ DigitsAt(s, 6, 7) /\ s[8] = "-"
    /\ DigitsAt(s, 9, 10) /\ s[11] = "T" /\ DigitsAt(s, 12, 13) /\ s[14] = ":"
    /\ DigitsAt(s, 15, 16) /\ s[17] = ":" /\ DigitsAt(s, 18, 19) /\ s[20] = "Z"

\* the number written in the digits of s from one position to another
NumberAt(s, from, to) == MagToNat([i \in 1..(to - from + 1) |-> DigitVal(s[from + i - 1])])

\* an RFC 3339 parser on a stamp without fraction: a four-digit year, then
\* Z or a numeric offset
ParseRFC3339(s) ==
    LET head == /\ Len(s) >= 20
                /\ DigitsAt(s, 1, 4) /\ s[5] = "-" /\ DigitsAt(s, 6, 7) /\ s[8] = "-"
                /\ DigitsAt(s, 9, 10) /\ s[11] = "T" /\ DigitsAt(s, 12, 13)
                /\ s[14] = ":" /\ DigitsAt(s, 15, 16) /\ s[17] = ":"
                /\ DigitsAt(s, 18, 19)
        zulu == Len(s) = 20 /\ s[20] = "Z"
        numeric == /\ Len(s) = 25 /\ s[20] \in {"+", "-"} /\ DigitsAt(s, 21, 22)
                   /\ s[23] = ":" /\ DigitsAt(s, 24, 25)
    IN IF ~head \/ ~(zulu \/ numeric)
       THEN [err |-> TRUE, t |-> Instant(0, 0, 0, 0)]
       ELSE LET off == IF zulu THEN 0
                       ELSE (IF s[20] = "-" THEN -1 ELSE 1)
                            * (NumberAt(s, 21, 22) * 3600 + NumberAt(s, 24, 25) * 60)
                utc == NumberAt(s, 12, 13) * 3600 + NumberAt(s, 15, 16) * 60
                       + NumberAt(s, 18, 19) - off
                day == DaysFromCivil(NumberAt(s, 1, 4), NumberAt(s, 6, 7),
                                     NumberAt(s, 9, 10)) + utc \div 86400
            IN [err |-> FALSE, t |-> Instant(day, utc % 86400, 0, off)]

\* the same instant, whatever the location
SameInstant(a, b) == a.day = b.day /\ a.sec = b.sec /\ a.nsec = b.nsec
Truncate(t) == [t EXCEPT !.nsec = 0]

\* instants to encode: UTC dates from year -1 to year 10000, times of the day,
\* sub-second parts, and locations
Dates ==
    {<< 1970, 1, 1 >>, << 2016, 2, 29 >>, << 2026, 10, 30 >>, << 2100, 3, 1 >>,
     << 1, 1, 1 >>, << 0, 12, 31 >>, << -1, 6, 15 >>, << 9999, 12, 31 >>,
     << 10000, 1, 1 >>}
Instants ==
    {Instant(DaysFromCivil(d[1], d[2], d[3]), s, ns, off) :
        d \in Dates, s \in {0, 3661, 86399}, ns \in {0, 1, 999999999},
        off \in {0, -18000, 19800}}

InitTime ==
    /\ NewClient
    /\ cod \in {[stage |-> "instant", t |-> t, out |-> << >>] : t \in Instants}

\* the encoder calls MarshalJSON on the timestamp
Marshal ==
    /\ cod.stage = "instant"
    /\ cod' = [cod EXCEPT !.stage = "stamp", !.out = MarshalJSON(cod.t)]
    /\ UNCHANGED << now, holders, Token, tokenExpiresAt, pc, kind, seen, fetched,
                    ret, fetches, lastOk, log, exec, config >>

NextTime == Marshal

SpecTime == InitTime /\ [][NextTime]_vars

\* ------------------------------------------------------------------ claims
\* places of a call between taking the guard and releasing it
InEnsureValid(c) == pc[c] \in {"fetch", "storeToken", "storeExpiry", "unlock"}

\* EnsureValid has handed c a token and is about to release the guard
Returning(c) == pc[c] = "unlock" /\ ret[c].done /\ ~ret[c].err

\* C2: a token returned by EnsureValid has a recorded expiry later than the
\* instant at which it is returned, whatever expires_in the endpoint reports.
C2_ReturnedTokenNotExpired ==
    \A c \in Callers : Returning(c) => tokenExpiresAt > now

\* C3: cache hit.  A call with forceRefresh = false whose check found a token
\* with (expiry - 60 s) strictly later than the time of the check returns that
\* token, leaves the stored pair as it was and sends no fetch request.
C3_CacheHit ==
    \A c \in Callers :
        ( /\ InEnsureValid(c)
          /\ ~ForceRefresh(kind[c])
          /\ seen[c].Token # Nil
          /\ seen[c].tokenExpiresAt - 60 > seen[c].at )
        => /\ pc[c] = "unlock"
           /\ ret[c] = [done |-> TRUE, err |-> FALSE,
                        token |-> Deref(seen[c].Token).Token, error |-> NoError]
           /\ Token = seen[c].Token
           /\ tokenExpiresAt = seen[c].tokenExpiresAt
           /\ fetched[c] = Nil
           /\ FetchesInCall(c) = 0

C3_Witness ==
    \E c \in Callers :
        /\ pc[c] = "unlock"
        /\ kind[c] = "EV"
        /\ seen[c].Token # Nil
        /\ seen[c].tokenExpiresAt - 60 > seen[c].at
        /\ ret[c].token = Deref(seen[c].Token).Token
        /\ fetched[c] = Nil

\* the pair c read in its check was stale: a token within the safety margin
\* of its expiry, at it or past it
SawStale(c) ==
    /\ seen[c].Token # Nil
    /\ seen[c].at >= seen[c].tokenExpiresAt - 60

\* C5: staleness renewal.  An authenticated business call whose check happens
\* at a time t >= expiry - 60 s sends exactly one token fetch before its
\* business request, and a business request it goes on to send carries the
\* token of that fetch, not the token it found.
C5_StalenessRenewal ==
    \A c \in Callers :
        (InEnsureValid(c) /\ kind[c] = "Exec" /\ SawStale(c))
        => /\ FetchesInCall(c) = 1
           /\ pc[c] = "unlock" /\ ENABLED (Unlock(c) /\ pc'[c] = "business")
              => /\ fetched[c] # Nil
                 /\ ret[c].token = Deref(fetched[c]).access_token
                 /\ ret[c].token # Deref(seen[c].Token).Token

\* the check happened exactly at expiry - 60 s and the renewed token is about
\* to be sent with the business request
C5_Witness ==
    \E c \in Callers :
        /\ pc[c] = "unlock" /\ kind[c] = "Exec"
        /\ seen[c].Token # Nil
        /\ seen[c].at = seen[c].tokenExpiresAt - 60
        /\ fetched[c] # Nil
        /\ ret[c].token = Deref(fetched[c]).access_token

\* C6: mutual exclusion.  At most one caller is between the start of the
\* freshness check and the end of the store, so no two token fetches are in
\* flight together.
C6_MutualExclusion ==
    /\ Cardinality({c \in Callers : InEnsureValid(c)}) <= 1
    /\ Cardinality({c \in Callers : pc[c] = "fetch"}) <= 1
    /\ Cardinality(holders) <= 1

\* one caller's fetch is in flight while another waits for the guard
C6_Witness ==
    \E c, d \in Callers : pc[c] = "fetch" /\ pc[d] = "wait"

\* the stored pair is the whole result of one completed fetch, or the pair of
\* a client that has none
WholePair(tok, expiresAt) ==
    IF lastOk = Nil
    THEN tok = Nil /\ expiresAt = 0
    ELSE /\ tok = Ref([RefreshToken |-> 0,
                       Token |-> Deref(lastOk).access_token,
                       Type |-> "Bearer",
                       ExpiresIn |-> Deref(lastOk).expires_in])
         /\ expiresAt = Deref(lastOk).doneAt + Deref(lastOk).expires_in

\* C7: atomic pair.  The (token, expiry) pair a caller reads in its check is
\* the pair of one completed fetch, and so is the stored pair whenever no
\* caller is inside EnsureValid.
C7_AtomicPair ==
    /\ \A c \in Callers :
          (pc[c] = "fetch" \/ (pc[c] = "unlock" /\ fetched[c] = Nil))
          => WholePair(seen[c].Token, seen[c].tokenExpiresAt)
    /\ (\A c \in Callers : ~InEnsureValid(c)) => WholePair(Token, tokenExpiresAt)

\* a caller has read the pair left by the second fetch while another call is
\* in progress elsewhere
C7_Witness ==
    \E c \in Callers :
        /\ pc[c] = "unlock" /\ fetched[c] = Nil /\ ~ret[c].err
        /\ seen[c].Token # Nil
        /\ Deref(seen[c].Token).Token >= 2

\* C8: no caller holds the guard while its business request is in flight, and
\* callers in business I/O do not keep a waiting caller out of EnsureValid.
C8_GuardNotHeldInBusiness ==
    /\ \A c \in Callers : pc[c] = "business" => c \notin holders
    /\ \A d \in Callers :
          ( /\ pc[d] = "wait"
            /\ \A c \in Callers : ~InEnsureValid(c) )
          => ENABLED Enter(d)

\* one caller is sending its token fetch while another's business request is
\* in flight
C8_Witness ==
    \E c, d \in Callers : pc[c] = "business" /\ pc[d] = "fetch"

\* C9: after a successful fetch the stored token is the access token of the
\* endpoint's response and the stored expiry is the fetch's completion time
\* plus the response's expires_in.
C9_StoredIsFetched ==
    \A c \in Callers :
        (pc[c] = "unlock" /\ fetched[c] # Nil)
        => /\ Token # Nil
           /\ Deref(Token).Token = Deref(fetched[c]).access_token
           /\ tokenExpiresAt = Deref(fetched[c]).doneAt + Deref(fetched[c]).expires_in

\* a fetch that completed after the clock had advanced, replacing an earlier token
C9_Witness ==
    \E c \in Callers :
        /\ pc[c] = "unlock" /\ fetched[c] # Nil
        /\ Deref(fetched[c]).doneAt > 0
        /\ Deref(fetched[c]).access_token >= 2
        /\ seen[c].Token # Nil

\* C10: EnsureValid(true) sends a fetch on every call, also when the stored
\* token is fresh, and on success the stored pair is the fetched one.
C10_ForceRefreshFetches ==
    \A c \in Callers :
        (InEnsureValid(c) /\ kind[c] = "EVForce")
        => /\ FetchesInCall(c) = 1
           /\ pc[c] = "unlock"
              => \/ ret[c].err /\ fetched[c] = Nil
                 \/ /\ fetched[c] # Nil
                    /\ Token = Ref(Deref(fetched[c]).response)
                    /\ Deref(Token).Token = Deref(fetched[c]).access_token
                    /\ Deref(Token).ExpiresIn = Deref(fetched[c]).expires_in
                    /\ tokenExpiresAt =
                          Deref(fetched[c]).doneAt + Deref(fetched[c]).expires_in
                    /\ ret[c].token = Deref(fetched[c]).access_token

\* a forced call that found a fresh token and has replaced it
C10_Witness ==
    \E c \in Callers :
        /\ pc[c] = "unlock" /\ kind[c] = "EVForce"
        /\ seen[c].Token # Nil
        /\ seen[c].tokenExpiresAt - 60 > seen[c].at
        /\ fetched[c] # Nil
        /\ Token # seen[c].Token

\* ---------------------------------------------------- claims on SpecBurst
\* every caller of the burst has returned
BurstOver == Len(log) = NumCallers

\* the returns that followed a fetch of their own
Fetchers == {i \in 1..Len(log) : log[i].fetched = 1}

\* C1 as stated, for the bursts in which no fetch fails and no caller is
\* handed a token at or past its recorded expiry: exactly one fetch occurs
\* and every caller returns the same token value, under every interleaving.
C1_ExactlyOneFetchAlways ==
    ( /\ BurstOver
      /\ \A i \in 1..Len(log) : ~log[i].err /\ log[i].expiresAt > log[i].at ) =>
        /\ fetches = 1
        /\ \A i, j \in 1..Len(log) : log[i].token = log[j].token

\* C1, amended: at least one fetch occurs and each call fetches at most once;
\* if every fetch that occurred succeeded and its token is still more than
\* 60 s from its expiry when the last caller has returned, exactly one fetch
\* occurred and every caller returned the same token value.
C1_SerializeAndShare ==
    BurstOver =>
        /\ fetches >= 1
        /\ fetches = Cardinality(Fetchers)
        /\ \A i \in 1..Len(log) : log[i].fetched \in {0, 1}
        /\ (\A i \in Fetchers : ~log[i].err /\ log[i].expiresAt - 60 > now)
           => /\ fetches = 1
              /\ \A i, j \in 1..Len(log) :
                    ~log[i].err /\ log[i].token = log[j].token

\* the burst is over after a single fetch whose token every caller returned
C1_Witness ==
    /\ BurstOver
    /\ fetches = 1
    /\ \A i, j \in 1..Len(log) : ~log[i].err /\ log[i].token = log[j].token
    /\ \E i \in 1..Len(log) : log[i].fetched = 0

\* ----------------------------------------------------- claims on SpecIdem
GoodFetch(ev) == ev.ok /\ ev.expires_in > 60

\* C4 as stated, for the runs in which no fetch fails and every expires_in
\* reported is positive: successive EnsureValid(false) calls with no elapsed
\* time send at most one fetch in total, whatever expires_in the endpoint
\* returns.
C4_AtMostOneFetchAlways ==
    (\A i \in 1..Len(log) : log[i].ok /\ log[i].expires_in > 0) => fetches <= 1

\* C4, amended: once a fetch has succeeded with expires_in greater than 60 s,
\* successive EnsureValid(false) calls with no elapsed time send no further
\* fetch; only a fetch that failed or reported expires_in <= 60 s is followed
\* by another.
C4_Idempotence ==
    \A i \in 1..Len(log) :
        GoodFetch(log[i]) => i = Len(log) /\ fetches = i

\* a call returns from the cache after the second fetch of the run succeeded
\* with a long-lived token
C4_Witness ==
    /\ Len(log) >= 2
    /\ GoodFetch(log[Len(log)])
    /\ \E c \in Callers : pc[c] = "unlock" /\ fetched[c] = Nil /\ ~ret[c].err

\* C20: for every integer n of the signed 64-bit range, the bare JSON number n
\* and the JSON string of n's decimal digits both decode without error, and
\* both to exactly n.
C20_BothFormsDecode ==
    (cod.stage = "done" /\ cod.n # Nil /\ InInt64(Deref(cod.n)))
        => (~cod.err /\ cod.e = Deref(cod.n))

\* the largest 64-bit integer, sent as a string, has been decoded over a
\* destination that held something else
C20_Witness ==
    /\ cod.stage = "done"
    /\ cod.b = [kind |-> "string", text |-> FormatInt(IntVal(FALSE, << 9,2,2,3,3,7,2,0,3,6,8,5,4,7,7,5,8,0,7 >>))]
    /\ cod.e0 = FromInt(3600)
    /\ cod.e = IntVal(FALSE, << 9,2,2,3,3,7,2,0,3,6,8,5,4,7,7,5,8,0,7 >>)
    /\ ~cod.err

\* ---- claims about Execute and Decode, on the frames of SpecExec
\* EnsureValid has failed with an AuthError and no token
Failed(r) == r.done /\ r.err /\ r.token = 0 /\ r.error.kind = "AuthError"
OutsideSuccess(status) == status < 200 \/ status > 299
\* the forms in which the body writes expires_in
WrittenForms(body) ==
    {Occurrences(body.doc, json_tag.expires_in)[i].value.form :
        i \in 1..Len(Occurrences(body.doc, json_tag.expires_in))}
Unparsable(body) ==
    \/ ~body.wellformed
    \/ body.wellformed /\ body.doc.kind = "array"
    \/ IsObject(body) /\ WrittenForms(body) \cap BadExpiresInForms # {}
BadAnswer(ans) == OutsideSuccess(ans.status) \/ Unparsable(ans.body)

\* C11: when the token endpoint answers with a status outside 200..299 or with
\* a body that does not parse into a token response, EnsureValid fails with
\* an AuthError and returns no token: it stores nothing, and returns neither
\* an empty nor the stored token as a success.
C11_BadAnswerIsAuthError ==
    \A c \in Callers :
        (exec[c].answer # Nil /\ BadAnswer(Deref(exec[c].answer)))
            => /\ pc[c] \in {"unlock", "idle"}
               /\ pc[c] = "unlock" => Failed(ret[c])
               /\ pc[c] = "idle" => (exec[c].auth # Nil /\ Failed(Deref(exec[c].auth)))

\* a client that holds a token got 200 with an expires_in that is no integer,
\* and the call has returned
C11_Witness ==
    /\ Token # Nil
    /\ exec[1].answer # Nil
    /\ Deref(exec[1].answer).status = 200
    /\ IsObject(Deref(exec[1].answer).body)
    /\ WrittenForms(Deref(exec[1].answer).body) = {"fraction"}
    /\ exec[1].auth # Nil
    /\ Failed(Deref(exec[1].auth))

\* C12: an Execute with authRequired = true whose EnsureValid fails returns
\* that failure, and sends no business request.
C12_AuthFailureSendsNothing ==
    \A c \in Callers :
        (exec[c].auth # Nil /\ Deref(exec[c].auth).err)
            => /\ pc[c] = "idle"
               /\ exec[c].req = Nil
               /\ exec[c].sends = 0
               /\ exec[c].result # Nil
               /\ Deref(exec[c].result).err = Deref(exec[c].auth).error
               /\ Deref(exec[c].result).err.kind = "AuthError"
               /\ Deref(exec[c].result).raw = Nil

C12_Witness ==
    /\ exec[1].auth # Nil
    /\ Failed(Deref(exec[1].auth))
    /\ exec[1].result # Nil
    /\ Deref(exec[1].in).method = "POST"
    /\ Deref(exec[1].answer).status = 401

\* C13: whatever extraHeaders holds, the request sent carries as its
\* authorization header the bearer token that the call's EnsureValid returned,
\* and every other header has the caller's value when extraHeaders gives one
\* and the default otherwise.
C13_BearerNeverOverridden ==
    \A c \in Callers :
        exec[c].req # Nil =>
            LET in == Deref(exec[c].in)
                h == Deref(exec[c].req).Header
            IN /\ "Authorization" \in DOMAIN h
               /\ h["Authorization"] = Bearer(Deref(exec[c].auth).token)
               /\ \A n \in DOMAIN in.extra \ {"Authorization"} :
                      n \in DOMAIN h /\ h[n] = in.extra[n]
               /\ (in.hasBody /\ "Content-Type" \notin DOMAIN in.extra)
                      => h["Content-Type"] = << "application/json" >>
               /\ ("Content-Type" \in DOMAIN h)
                      <=> (in.hasBody \/ "Content-Type" \in DOMAIN in.extra)

\* a request with a body was sent for a caller who gave its own authorization
\* and content type
C13_Witness ==
    /\ exec[1].req # Nil
    /\ Deref(exec[1].in).extra = CallerHeaders(HeaderNames)
    /\ Deref(exec[1].in).hasBody
    /\ Deref(exec[1].req).Header["Content-Type"] = << "caller", "Content-Type" >>
    /\ pc[1] = "business"

\* C14: an Execute sends its business request at most once; a transport
\* failure ends it with a TransportError, and no response, whatever its
\* status, makes it send again or fetch a token.
C14_NoRetry ==
    \A c \in Callers :
        /\ exec[c].sends <= 1
        /\ (exec[c].req # Nil /\ exec[c].result # Nil)
              => /\ pc[c] = "idle"
                 /\ exec[c].sends = 1
                 /\ fetches = Deref(exec[c].sentAt).fetches
                 /\ exec[c].resp = Nil
                       => Deref(exec[c].result).err = TransportError

\* a server error was received by a call that had fetched its token
C14_Witness ==
    /\ exec[1].resp # Nil
    /\ Deref(exec[1].resp).StatusCode = 500
    /\ fetches = 1
    /\ exec[1].sends = 1
    /\ pc[1] = "idle"

\* what an Execute that has returned must have returned, told from its inputs
\* and from what the network answered alone: the token endpoint's failure, the
\* transport failure of the business request, or the decoded response
ValueOfCall(c) ==
    IF exec[c].req = Nil
    THEN [err |-> [kind |-> "AuthError",
                   detail |-> AuthError(Deref(exec[c].answer)).detail],
          raw |-> Nil, out |-> Deref(exec[c].in).out, writes |-> 0]
    ELSE IF exec[c].resp = Nil
         THEN [err |-> TransportError, raw |-> Nil, out |-> Deref(exec[c].in).out,
               writes |-> 0]
         ELSE [err |-> Decode(Deref(exec[c].resp), Deref(exec[c].in).out).err,
               raw |-> exec[c].resp,
               out |-> Decode(Deref(exec[c].resp), Deref(exec[c].in).out).out,
               writes |-> Decode(Deref(exec[c].resp), Deref(exec[c].in).out).writes]

Decoded == {c \in Callers : exec[c].resp # Nil /\ exec[c].result # Nil}

\* C16 as stated: for every 200..299 response with a well-formed body, Decode
\* writes the output exactly once and returns no error.
C16_WritesOnceAlways ==
    \A c \in Decoded :
        (~OutsideSuccess(Deref(exec[c].resp).StatusCode)
         /\ Deref(exec[c].resp).Body.wellformed)
            => /\ Deref(exec[c].result).writes = 1
               /\ Deref(exec[c].result).err = NoError

\* C16: for every 200..299 response with a well-formed body Decode returns no
\* error; with a non-nil outPointer it writes the output exactly once, with
\* the body's content, and with a nil outPointer it writes nothing.
C16_WritesOnce ==
    \A c \in Decoded :
        (~OutsideSuccess(Deref(exec[c].resp).StatusCode)
         /\ Deref(exec[c].resp).Body.wellformed)
            => /\ Deref(exec[c].result).err = NoError
               /\ IF Deref(exec[c].in).out = Nil
                  THEN /\ Deref(exec[c].result).writes = 0
                       /\ Deref(exec[c].result).out = Nil
                  ELSE /\ Deref(exec[c].result).writes = 1
                       /\ Deref(exec[c].result).out = Ref(Deref(exec[c].resp).Body.doc)

C16_Witness ==
    /\ 1 \in Decoded
    /\ Deref(exec[1].resp).StatusCode = 299
    /\ Deref(exec[1].resp).Body = WellFormed(OrderDoc)
    /\ Deref(exec[1].in).out # Nil
    /\ Deref(exec[1].result).out = Ref(OrderDoc)

\* C17: for every response outside 200..299, whatever its body and the
\* outPointer, Decode leaves the output as it was and returns a structured
\* error that carries the status code of the response and the method and
\* URL of its request.
C17_RemoteErrorCarriesResponse ==
    \A c \in Decoded :
        OutsideSuccess(Deref(exec[c].resp).StatusCode)
            => /\ Deref(exec[c].result).out = Deref(exec[c].in).out
               /\ Deref(exec[c].result).writes = 0
               /\ Deref(exec[c].result).err.kind = "RemoteError"
               /\ Deref(exec[c].result).err.detail # Nil
               /\ Deref(Deref(exec[c].result).err.detail).Response # Nil
               /\ LET r == Deref(Deref(Deref(exec[c].result).err.detail).Response)
                  IN /\ r.StatusCode = Deref(exec[c].resp).StatusCode
                     /\ r.Request # Nil
                     /\ Deref(r.Request).Method = Deref(exec[c].in).method
                     /\ Deref(r.Request).URL = << "APIBase", Deref(exec[c].in).path >>

C17_Witness ==
    /\ 1 \in Decoded
    /\ Deref(exec[1].resp).StatusCode = 422
    /\ Deref(exec[1].resp).Body = WellFormed(ValidationDoc)
    /\ Deref(exec[1].in).out = Ref(ZeroShape)
    /\ Deref(exec[1].result).out = Ref(ZeroShape)
    /\ Deref(Deref(exec[1].result).err.detail).Name = "VALIDATION_ERROR"

\* a body that is no JSON, or JSON that is neither an object nor null
NoErrorShape(body) == ~body.wellformed \/ body.doc.kind \notin {"object", "null"}
\* C18: for every response outside 200..299 whose body does not parse, Decode
\* returns a structured error with the status code and a generic message,
\* and nothing from the body: not a success, not a DecodeError.
C18_UnparsableErrorBody ==
    \A c \in Decoded :
        (OutsideSuccess(Deref(exec[c].resp).StatusCode)
         /\ NoErrorShape(Deref(exec[c].resp).Body))
            => /\ Deref(exec[c].result).err.kind = "RemoteError"
               /\ Deref(exec[c].result).err.detail # Nil
               /\ LET er == Deref(Deref(exec[c].result).err.detail)
                  IN /\ er.Response # Nil
                     /\ Deref(er.Response).StatusCode = Deref(exec[c].resp).StatusCode
                     /\ er.Message = GenericMessage
                     /\ er.Name = "" /\ er.DebugID = "" /\ er.Details = << >>

C18_Witness ==
    /\ 1 \in Decoded
    /\ Deref(exec[1].resp).StatusCode = 500
    /\ ~Deref(exec[1].resp).Body.wellformed
    /\ Deref(exec[1].result).err.kind = "RemoteError"

\* C19: for every 200..299 response with a malformed body and a non-nil
\* outPointer, Decode returns a DecodeError: no success, and no structured
\* error.
C19_MalformedSuccessBody ==
    \A c \in Decoded :
        (~OutsideSuccess(Deref(exec[c].resp).StatusCode)
         /\ ~Deref(exec[c].resp).Body.wellformed
         /\ Deref(exec[c].in).out # Nil)
            => /\ Deref(exec[c].result).err = DecodeError
               /\ Deref(exec[c].result).writes = 0

C19_Witness ==
    /\ 1 \in Decoded
    /\ Deref(exec[1].resp).StatusCode = 204
    /\ ~Deref(exec[1].resp).Body.wellformed
    /\ Deref(exec[1].in).out # Nil
    /\ Deref(exec[1].result).err = DecodeError

\* ---- claims about the expires_in codec, on the calls of SpecCodec
\* text that is an optional sign and then digits only
IntegerDigits(t) ==
    LET ds == IF t # << >> /\ t[1] \in {"+", "-"} THEN Tail1(t) ELSE t
    IN ds # << >> /\ \A i \in 1..Len(ds) : IsDigit(ds[i])
\* a value that is no integer: a fraction or an exponent form, a string that
\* is no number, a boolean, an object, an array, null
NotAnInteger(b) == b.kind \notin {"number", "string"} \/ ~IntegerDigits(b.text)

\* C21: the codec returns an error for every value that is not an integer,
\* and then the destination holds what it held before the call.
C21_NonIntegerRejected ==
    (cod.stage = "done" /\ NotAnInteger(cod.b))
        => (cod.err /\ cod.e = cod.e0)

\* the exponent form 1e3 was rejected over a destination that held 3600
C21_Witness ==
    /\ cod.stage = "done"
    /\ cod.b = [kind |-> "number", text |-> << "1", "e", "3" >>]
    /\ cod.e0 = FromInt(3600)
    /\ cod.e = FromInt(3600)
    /\ cod.err

\* C30: an integer outside -(1 << 63) .. (1 << 63) - 1, bare or in a string,
\* is rejected with an error and leaves the destination as it was; a value
\* that is accepted decodes to exactly the integer sent.
C30_NoWrapNoTruncation ==
    (cod.stage = "done" /\ cod.n # Nil)
        => /\ ~InInt64(Deref(cod.n)) => (cod.err /\ cod.e = cod.e0)
           /\ ~cod.err => cod.e = Deref(cod.n)

\* 1 << 63, sent as a string, was rejected
C30_Witness ==
    /\ cod.stage = "done"
    /\ cod.n = Ref(IntVal(FALSE, Cutoff64))
    /\ cod.b.kind = "string"
    /\ cod.e0 = FromInt(3600)
    /\ cod.err
    /\ cod.e = cod.e0

\* ---- claims about the timestamp codec, on the calls of SpecTime
\* the stamp between the quotes
Unquoted(s) == SubSeq(s, 2, Len(s) - 1)

\* C22: every instant, in any location and with any sub-second part, is
\* encoded as a quoted string of the form YYYY-MM-DDThh:mm:ssZ, and parsing
\* that string as RFC 3339 yields the instant truncated to the whole second.
C22_TimestampRoundTrip ==
    cod.stage = "stamp"
        => /\ cod.out[1] = "\"" /\ cod.out[Len(cod.out)] = "\""
           /\ IsStampForm(Unquoted(cod.out))
           /\ ~ParseRFC3339(Unquoted(cod.out)).err
           /\ SameInstant(ParseRFC3339(Unquoted(cod.out)).t, Truncate(cod.t))

\* ---- more claims on the frames of SpecExec
\* what a document writes under a key, whatever the letter case of the key;
\* a document holds a key when it writes it once (RFC 8259: what an object
\* with a repeated name means is up to the reader)
Holds(doc, tag) == Len(Occurrences(doc, tag)) = 1
ValueOf(doc, tag) == Occurrences(doc, tag)[1].value
IsErrorPayload(doc) ==
    /\ doc.kind = "object"
    /\ Holds(doc, json_tag.name) /\ ValueOf(doc, json_tag.name).kind = "string"
    /\ Holds(doc, json_tag.message) /\ ValueOf(doc, json_tag.message).kind = "string"
    /\ Holds(doc, json_tag.details) /\ ValueOf(doc, json_tag.details).kind = "array"

\* C23: a response outside 200..299 whose body is a well-formed error payload
\* makes the call fail with a RemoteError that has the status code of the
\* response, the name and the message of the body, and one detail for each
\* detail entry of the body, in the same order, with its field and issue.
C23_RemoteErrorFromBody ==
    \A c \in Decoded :
        (OutsideSuccess(Deref(exec[c].resp).StatusCode)
         /\ Deref(exec[c].resp).Body.wellformed
         /\ IsErrorPayload(Deref(exec[c].resp).Body.doc))
            => /\ Deref(exec[c].result).err.kind = "RemoteError"
               /\ Deref(exec[c].result).err.detail # Nil
               /\ LET er == Deref(Deref(exec[c].result).err.detail)
                      doc == Deref(exec[c].resp).Body.doc
                  IN /\ er.Response # Nil
                     /\ Deref(er.Response).StatusCode = Deref(exec[c].resp).StatusCode
                     /\ er.Name = ValueOf(doc, json_tag.name).val
                     /\ er.Message = ValueOf(doc, json_tag.message).val
                     /\ Len(er.Details) = Len(ValueOf(doc, json_tag.details).items)
                     /\ \A i \in 1..Len(er.Details) :
                            LET entry == ValueOf(doc, json_tag.details).items[i]
                            IN /\ er.Details[i].Field = ValueOf(entry, json_tag.field).val
                               /\ er.Details[i].Issue = ValueOf(entry, json_tag.issue).val

\* a 422 whose body writes its keys in other letter cases was decoded: two
\* details in the order of the body, the first with its link
C23_Witness ==
    /\ 1 \in Decoded
    /\ Deref(exec[1].resp).StatusCode = 422
    /\ Deref(exec[1].resp).Body = WellFormed(TwoIssuesDoc)
    /\ Deref(exec[1].result).err.kind = "RemoteError"
    /\ Deref(Deref(exec[1].result).err.detail).Name = "UNPROCESSABLE_ENTITY"
    /\ Len(Deref(Deref(exec[1].result).err.detail).Details) = 2
    /\ Deref(Deref(exec[1].result).err.detail).Details[1].Field = "/purchase_units/0/amount"
    /\ Deref(Deref(exec[1].result).err.detail).Details[1].Issue = "AMOUNT_MISMATCH"
    /\ Deref(Deref(exec[1].result).err.detail).Details[1].Links =
          << [Href |-> "https://developer.paypal.com/docs/api/orders/", Rel |-> "",
              Method |-> "", Description |-> "", Enctype |-> ""] >>
    /\ Deref(Deref(exec[1].result).err.detail).Details[2].Field = "/payer"

\* the error renders as the method and the URL of req, the status, and its
\* own message and details
Renders(er, req, status) ==
    /\ er.Response # Nil
    /\ Deref(er.Response).Request # Nil
    /\ ~Error(er).panics
    /\ Error(er).text = << req.method, << "APIBase", req.path >>, status,
                           er.Message, er.Details >>

\* C29: every ErrorResponse that the pipeline returns, from EnsureValid with
\* the AuthError of a failed fetch and from Execute with an AuthError or a
\* RemoteError, the minimal one of an unparsable body included, has its
\* response attached, and the response its request, so Error() does not panic
\* and renders the method, the URL, the status code, the message and the
\* details.
C29_ErrorAlwaysRenders ==
    \A c \in Callers :
        /\ ret[c].error.detail # Nil
              => Renders(Deref(ret[c].error.detail),
                         [method |-> "POST", path |-> "/oauth2/token"],
                         Deref(exec[c].answer).status)
        /\ (exec[c].result # Nil /\ Deref(exec[c].result).err.detail # Nil)
              => IF Deref(exec[c].result).err.kind = "AuthError"
                 THEN Renders(Deref(Deref(exec[c].result).err.detail),
                              [method |-> "POST", path |-> "/oauth2/token"],
                              Deref(exec[c].answer).status)
                 ELSE Renders(Deref(Deref(exec[c].result).err.detail),
                              Deref(exec[c].in), Deref(exec[c].resp).StatusCode)

\* Execute returned the AuthError of a token endpoint that answered 500 with
\* a body that does not parse, and its minimal error was rendered
C29_Witness ==
    /\ exec[1].result # Nil
    /\ Deref(exec[1].result).err.kind = "AuthError"
    /\ Deref(exec[1].answer).status = 500
    /\ ~Deref(exec[1].answer).body.wellformed
    /\ ~Error(Deref(Deref(exec[1].result).err.detail)).panics
    /\ Error(Deref(Deref(exec[1].result).err.detail)).text[1] = "POST"
    /\ Error(Deref(Deref(exec[1].result).err.detail)).text[4] = GenericMessage

\* ---- claims about the stored pair, on the client under concurrent callers
\* C24: the stored token changes only in the first assignment of the store of
\* a fetch and the stored expiry only in the second; the step that sends a
\* business request and the step that takes its response change neither;
\* the credentials and the base URL never change.
C24_StoredPairFrame ==
    [][/\ (Token' # Token)
            => \E c \in Callers : pc[c] = "storeToken" /\ pc'[c] = "storeExpiry"
       /\ (tokenExpiresAt' # tokenExpiresAt)
            => \E c \in Callers : pc[c] = "storeExpiry" /\ pc'[c] = "unlock"
       /\ (\E c \in Callers : pc[c] \in {"unlock", "business"} /\ pc'[c] # pc[c])
            => (Token' = Token /\ tokenExpiresAt' = tokenExpiresAt)
       /\ config' = config]_vars

\* a business request is in flight while another caller stores a new pair
\* over an older one
C24_Witness ==
    /\ \E c \in Callers : pc[c] = "business"
    /\ \E c \in Callers : pc[c] = "storeExpiry"
    /\ tokenExpiresAt # 0
    /\ config = NewConfig

\* every answer that is a transport failure, has a status outside 2xx or has
\* an unparsable body makes the fetch fail, whichever token it carries
FailedAnswersFail ==
    \A tok \in 1..(MaxFetches + 1) : \A ans \in BadTokenAnswers(tok) : AuthFails(ans)
\* C25: a failed token fetch (transport failure, status outside 2xx or
\* unparsable body) leaves the stored token and the stored expiry as the call
\* found them, so the next check reads the cached state it would have read had
\* the failed call not happened.
C25_FailedFetchKeepsPair ==
    /\ FailedAnswersFail
    /\ \A c \in Callers :
          (pc[c] = "unlock" /\ ret[c].err)
          => /\ Token = seen[c].Token
             /\ tokenExpiresAt = seen[c].tokenExpiresAt
             /\ fetched[c] = Nil
             /\ CacheHit(FALSE, Token, tokenExpiresAt, now)
                   = CacheHit(FALSE, seen[c].Token, seen[c].tokenExpiresAt, now)
\* a fetch has failed over a stored token that is past its margin, after the
\* clock moved on
C25_Witness ==
    \E c \in Callers :
        /\ pc[c] = "unlock" /\ ret[c].err
        /\ seen[c].Token # Nil
        /\ Token = seen[c].Token
        /\ tokenExpiresAt = seen[c].tokenExpiresAt
        /\ now > 0

\* the pair c read in its check belongs to a token the endpoint gave a lifetime
\* of 60 seconds or less
SawShortLived(c) ==
    /\ seen[c].Token # Nil
    /\ Deref(seen[c].Token).ExpiresIn <= 60
\* C27: a token whose expires_in is 60 seconds or less is never served from the
\* cache.  Every EnsureValid(false) whose check reads it, the one right after
\* its fetch included, finds expiry - 60 s not later than the time of the check
\* and sends a new fetch; what it returns is that fetch's token or an error.
C27_ShortLivedNeverCached ==
    \A c \in Callers :
        (InEnsureValid(c) /\ SawShortLived(c))
        => /\ seen[c].tokenExpiresAt - 60 <= seen[c].at
           /\ FetchesInCall(c) = 1
           /\ pc[c] = "unlock"
              => \/ ret[c].err /\ fetched[c] = Nil
                 \/ /\ fetched[c] # Nil
                    /\ ret[c].token = Deref(fetched[c]).access_token
                    /\ ret[c].token # Deref(seen[c].Token).Token
\* a token of exactly 60 seconds is checked by an unforced call at the instant
\* its fetch completed, and has been fetched again
C27_Witness ==
    \E c \in Callers :
        /\ pc[c] = "unlock" /\ kind[c] = "EV"
        /\ seen[c].Token # Nil
        /\ Deref(seen[c].Token).ExpiresIn = 60
        /\ seen[c].at = seen[c].tokenExpiresAt - 60
        /\ fetched[c] # Nil
        /\ ret[c].token = Deref(fetched[c]).access_token

\* ---- claims about the order of tokens, on the history of SpecOrder
\* the stored token is the one of the newest completed successful fetch
StoredIsNewest ==
    IF lastOk = Nil THEN Token = Nil
    ELSE Token = Ref(Deref(lastOk).response)
\* C28 as stated: the stored token is the newest completed fetch's in every
\* state, also between the completion of a fetch and the store of its result.
C28_StoredAlwaysNewest == StoredIsNewest
\* C28: tokens are handed out in fetch order.  A call that took the guard
\* after other calls had returned never returns a token older than the newest
\* of theirs, and the stored token is the one of the newest completed
\* successful fetch except while the call that completed it has yet to store it.
C28_FetchOrder ==
    /\ \A c \in Callers :
          Returning(c)
          => /\ ret[c].token >= log.before[c]
             /\ ret[c].token = Deref(Token).Token
    /\ (\A c \in Callers : pc[c] # "storeToken") => StoredIsNewest
    /\ \A c \in Callers :
          pc[c] = "storeToken" => c \in holders /\ lastOk = fetched[c]
\* a call that took the guard after the first token had been handed out is
\* returning the token of a later fetch
C28_Witness ==
    \E c \in Callers :
        /\ Returning(c)
        /\ log.before[c] >= 1
        /\ ret[c].token > log.before[c]
        /\ log.handed = log.before[c]

\* ---- claims about progress, on the fair behaviours of SpecLive
\* C26: the guard is released on every exit path of EnsureValid.  Provided
\* every token request completes or fails, a caller waiting for the guard
\* eventually holds it and every call that was started eventually returns,
\* with the guard no longer held by the caller that returned.
C26_GuardReleased ==
    /\ [](\A c \in Callers : pc[c] \in {"idle", "wait"} => c \notin holders)
    /\ \A c \in Callers : (pc[c] = "wait") ~> (c \in holders)
    /\ \A c \in Callers : (pc[c] # "idle") ~> (pc[c] = "idle" /\ holders # {c})
\* one caller waits for the guard while the holder's fetch has failed
C26_Witness ==
    \E c, d \in Callers :
        /\ pc[c] = "wait"
        /\ pc[d] = "unlock" /\ ret[d].err /\ d \in holders

====
